---- MODULE Spec2Model ----
(***************************************************************************)
(* Model of CryptoEngine (src/crypto.js): the time-windowed XOR cipher,    *)
(* its envelope and the multi-window decrypt retry loop.                    *)
(*                                                                          *)
(* Strings are sequences of UTF-16 code units (naturals below 65536), as   *)
(* charCodeAt / String.fromCharCode see them.  Error messages, which the    *)
(* code only builds and never inspects, are TLA+ strings.                   *)
(***************************************************************************)
EXTENDS Integers, Sequences, FiniteSets, TLC

(***************************************************************************)
(* Program constants                                                        *)
(***************************************************************************)
\* the 24 hour limit of attemptDecrypt: age > 86400000
MaxAge == 86400000

\* 'NFC_AUTH_2025_SECURE'
secret == <<78, 70, 67, 95, 65, 85, 84, 72, 95, 50, 48, 50, 53, 95,
            83, 69, 67, 85, 82, 69>>

\* 'NFC_'
PREFIX == <<78, 70, 67, 95>>

(***************************************************************************)
(* Integer and string helpers of the platform                               *)
(***************************************************************************)
Lo16(h) == h % 65536

Hi16(h) == h \div 65536

\* ((hash << 5) - hash) + char, then hash & hash: 31*hash + char wrapped to
\* a signed 32-bit integer.  Computed on 16-bit halves so that no
\* intermediate value leaves the 32-bit range.
HashStep(h, c) ==
    LET lo  == 31 * Lo16(h) + c
        hi  == (31 * Hi16(h) + (lo \div 65536)) % 65536
        shi == IF hi >= 32768 THEN hi - 65536 ELSE hi
    IN  shi * 65536 + (lo % 65536)

\* one lower-case hexadecimal digit, as Number.prototype.toString(16) writes
HexDigit(d) == IF d < 10 THEN 48 + d ELSE 87 + d

Hex4(n) == << HexDigit((n \div 4096) % 16), HexDigit((n \div 256) % 16),
              HexDigit((n \div 16) % 16), HexDigit(n % 16) >>

\* the hexadecimal digits of the 32-bit pattern of h, with no Math.abs
TwosHex8(h) == Hex4(Hi16(h) % 65536) \o Hex4(Lo16(h))

\* Math.abs(hash).toString(16).padStart(8, '0'); |hash| <= 2^31 is rendered
\* from its halves, so -2^31 gives "80000000".
AbsHex8(h) ==
    IF h >= 0
    THEN Hex4(Hi16(h)) \o Hex4(Lo16(h))
    ELSE LET lo == Lo16(h)
             hi == Hi16(h)
         IN  IF lo = 0
             THEN Hex4(-hi) \o Hex4(0)
             ELSE Hex4(-hi - 1) \o Hex4(65536 - lo)

RECURSIVE DecDigits(_)
DecDigits(n) ==
    IF n < 10 THEN << 48 + n >> ELSE DecDigits(n \div 10) \o << 48 + (n % 10) >>

\* Number.prototype.toString() of an integer
NumToString(n) == IF n < 0 THEN << 45 >> \o DecDigits(-n) ELSE DecDigits(n)

RECURSIVE Xor(_, _)
\* the ^ operator on two non-negative code units
Xor(a, b) ==
    IF a = 0 THEN b
    ELSE IF b = 0 THEN a
    ELSE 2 * Xor(a \div 2, b \div 2) + ((a + b) % 2)

(***************************************************************************)
(* Hasher, key stream and cipher                                            *)
(***************************************************************************)
\* the loop of simpleHash: loop[<< i, hash >>] is the value of hash when the
\* loop ends, given hash before the iteration for the i-th character
HashLoop(str) ==
    LET loop[s \in Nat \X Int] ==
            IF s[1] > Len(str) THEN s[2]
            ELSE loop[<< s[1] + 1, HashStep(s[2], str[s[1]]) >>]
    IN  loop[<< 1, 0 >>]

simpleHash(str) ==
    IF Len(str) = 0 THEN Hex4(0) \o Hex4(0)
    ELSE AbsHex8(HashLoop(str))

RECURSIVE ExpandLoop(_, _, _, _)
ExpandLoop(key, length, expandedKey, counter) ==
    IF Len(expandedKey) < length
    THEN ExpandLoop(key, length,
                    expandedKey \o simpleHash(key \o NumToString(counter)),
                    counter + 1)
    ELSE expandedKey

\* the expanded key with no substring(0, length)
expandKeyUncut(key, length) == ExpandLoop(key, length, key, 0)

\* expandedKey.substring(0, length)
expandKey(key, length) ==
    SubSeq(ExpandLoop(key, length, key, 0), 1, length)

\* a cipher that adds the key stream instead of XOR-ing it
addCipher(data, key) ==
    LET expandedKey == expandKey(key, Len(data))
    IN  [i \in 1..Len(data) |-> (data[i] + expandedKey[i]) % 65536]

xorCipher(data, key) ==
    LET expandedKey == expandKey(key, Len(data))
    IN  [i \in 1..Len(data) |->
            Xor(data[i], expandedKey[((i - 1) % Len(expandedKey)) + 1])]

(***************************************************************************)
(* btoa / atob of the platform                                              *)
(***************************************************************************)
\* the base64 alphabet: A-Z a-z 0-9 + /
B64Char(i) ==
    IF i < 26 THEN 65 + i
    ELSE IF i < 52 THEN 97 + (i - 26)
    ELSE IF i < 62 THEN 48 + (i - 52)
    ELSE IF i = 62 THEN 43 ELSE 47

\* the alphabet index of a code unit, -1 when it is not in the alphabet
B64Index(c) ==
    IF c >= 65 /\ c <= 90 THEN c - 65
    ELSE IF c >= 97 /\ c <= 122 THEN c - 97 + 26
    ELSE IF c >= 48 /\ c <= 57 THEN c - 48 + 52
    ELSE IF c = 43 THEN 62
    ELSE IF c = 47 THEN 63
    ELSE -1

RECURSIVE BtoaLoop(_, _)
BtoaLoop(s, i) ==
    IF i > Len(s) THEN << >>
    ELSE LET has2 == i + 1 <= Len(s)
             has3 == i + 2 <= Len(s)
             b1   == s[i]
             b2   == IF has2 THEN s[i + 1] ELSE 0
             b3   == IF has3 THEN s[i + 2] ELSE 0
         IN  << B64Char(b1 \div 4),
                B64Char((b1 % 4) * 16 + (b2 \div 16)),
                IF has2 THEN B64Char((b2 % 16) * 4 + (b3 \div 64)) ELSE 61,
                IF has3 THEN B64Char(b3 % 64) ELSE 61 >>
             \o BtoaLoop(s, i + 3)

\* an encoding that hands the code units on as they are
NoEncoding(s) == [ok |-> TRUE, val |-> s]

\* btoa(s): throws InvalidCharacterError when a code unit exceeds 255
btoa(s) ==
    IF \E i \in 1..Len(s) : s[i] > 255
    THEN [ok |-> FALSE, val |-> << >>]
    ELSE [ok |-> TRUE, val |-> BtoaLoop(s, 1)]

IsAsciiWs(c) == c \in {9, 10, 12, 13, 32}

RECURSIVE AtobLoop(_, _)
\* decodes groups of four characters; a last group of two or three
\* characters gives one or two bytes, its spare low bits are dropped
AtobLoop(d, i) ==
    IF i > Len(d) THEN << >>
    ELSE LET n  == Len(d) - i + 1
             c1 == B64Index(d[i])
             c2 == B64Index(d[i + 1])
             c3 == IF n >= 3 THEN B64Index(d[i + 2]) ELSE 0
             c4 == IF n >= 4 THEN B64Index(d[i + 3]) ELSE 0
             b1 == c1 * 4 + (c2 \div 16)
             b2 == (c2 % 16) * 16 + (c3 \div 4)
             b3 == (c3 % 4) * 64 + c4
         IN  IF n = 2 THEN << b1 >>
             ELSE IF n = 3 THEN << b1, b2 >>
             ELSE << b1, b2, b3 >> \o AtobLoop(d, i + 4)

\* a decoder that takes anything and never throws
atobLenient(s) == [ok |-> TRUE, val |-> << >>]

\* atob(s), the forgiving-base64 decode: ASCII whitespace is removed, one
\* or two trailing '=' are removed when the length is a multiple of four,
\* then a length of 1 modulo 4 or a character outside the alphabet throws
atob(s) ==
    LET noWs == SelectSeq(s, LAMBDA c : ~IsAsciiWs(c))
        n    == Len(noWs)
        cut  == IF n > 0 /\ n % 4 = 0
                THEN IF noWs[n] = 61 /\ noWs[n - 1] = 61 THEN 2
                     ELSE IF noWs[n] = 61 THEN 1 ELSE 0
                ELSE 0
        d    == SubSeq(noWs, 1, n - cut)
    IN  IF Len(d) % 4 = 1 \/ \E i \in 1..Len(d) : B64Index(d[i]) = -1
        THEN [ok |-> FALSE, val |-> << >>]
        ELSE [ok |-> TRUE, val |-> AtobLoop(d, 1)]

(***************************************************************************)
(* JSON.stringify of the envelope                                           *)
(***************************************************************************)
IsHighSurrogate(c) == c >= 55296 /\ c <= 56319

IsLowSurrogate(c) == c >= 56320 /\ c <= 57343

RECURSIVE QuoteLoop(_, _)
\* the characters of a JSON string literal: quote, backslash and control
\* characters are escaped, as is a surrogate that has no partner
QuoteLoop(s, i) ==
    IF i > Len(s) THEN << >>
    ELSE LET c == s[i]
         IN  IF IsHighSurrogate(c) /\ i < Len(s) /\ IsLowSurrogate(s[i + 1])
             THEN << c, s[i + 1] >> \o QuoteLoop(s, i + 2)
             ELSE (IF c = 34 THEN << 92, 34 >>
                   ELSE IF c = 92 THEN << 92, 92 >>
                   ELSE IF c = 8 THEN << 92, 98 >>
                   ELSE IF c = 12 THEN << 92, 102 >>
                   ELSE IF c = 10 THEN << 92, 110 >>
                   ELSE IF c = 13 THEN << 92, 114 >>
                   ELSE IF c = 9 THEN << 92, 116 >>
                   ELSE IF c < 32 \/ IsHighSurrogate(c) \/ IsLowSurrogate(c)
                        THEN << 92, 117 >> \o Hex4(c)
                   ELSE << c >>)
                  \o QuoteLoop(s, i + 1)

Quote(s) == << 34 >> \o QuoteLoop(s, 1) \o << 34 >>

KeyMsg == <<109, 115, 103>>

KeyTs == <<116, 115>>

KeySeed == <<115, 101, 101, 100>>

KeyChecksum == <<99, 104, 101, 99, 107, 115, 117, 109>>

\* JSON.stringify({ msg: message, ts: timestamp, seed: timeSeed,
\*                  checksum: checksum })
StringifyEnvelope(message, timestamp, timeSeed, checksum) ==
    << 123 >> \o Quote(KeyMsg) \o << 58 >> \o Quote(message)
    \o << 44 >> \o Quote(KeyTs) \o << 58 >> \o NumToString(timestamp)
    \o << 44 >> \o Quote(KeySeed) \o << 58 >> \o NumToString(timeSeed)
    \o << 44 >> \o Quote(KeyChecksum) \o << 58 >> \o Quote(checksum)
    \o << 125 >>

(***************************************************************************)
(* JSON.parse                                                               *)
(* A parsed value is [t, s, n]: t is "str" (s its characters), "int" (n a   *)
(* plain integer literal of at most nine digits), "true", "false", "null",  *)
(* "num" for any other number, or "other" for an array or a nested object;  *)
(* the content of the last two is not represented.                          *)
(***************************************************************************)
VStr(s) == [t |-> "str", s |-> s, n |-> 0]

VInt(n) == [t |-> "int", s |-> << >>, n |-> n]

VLit(name) == [t |-> name, s |-> << >>, n |-> 0]

VNum == [t |-> "num", s |-> << >>, n |-> 0]

VOther == [t |-> "other", s |-> << >>, n |-> 0]

\* a property that the object does not have
Undefined == [t |-> "undefined", s |-> << >>, n |-> 0]

PFail == [ok |-> FALSE, next |-> 0, val |-> VOther, m |-> << >>]

POk(next, val) == [ok |-> TRUE, next |-> next, val |-> val, m |-> << >>]

At(t, i) == IF i >= 1 /\ i <= Len(t) THEN t[i] ELSE -1

IsDigit(c) == c >= 48 /\ c <= 57

RECURSIVE SkipWs(_, _)
SkipWs(t, i) == IF At(t, i) \in {32, 9, 10, 13} THEN SkipWs(t, i + 1) ELSE i

RECURSIVE DigitsEnd(_, _)
DigitsEnd(t, i) == IF IsDigit(At(t, i)) THEN DigitsEnd(t, i + 1) ELSE i

RECURSIVE DigitsValue(_, _, _, _)
DigitsValue(t, i, j, acc) ==
    IF i >= j THEN acc ELSE DigitsValue(t, i + 1, j, 10 * acc + (t[i] - 48))

HexValue(c) ==
    IF IsDigit(c) THEN c - 48
    ELSE IF c >= 97 /\ c <= 102 THEN c - 87
    ELSE IF c >= 65 /\ c <= 70 THEN c - 55
    ELSE -1

RECURSIVE StrLoop(_, _, _)
StrLoop(t, j, acc) ==
    LET c == At(t, j)
        e == At(t, j + 1)
        h == [k \in 1..4 |-> HexValue(At(t, j + 1 + k))]
    IN  IF c = -1 \/ (c >= 0 /\ c < 32) THEN PFail
        ELSE IF c = 34 THEN POk(j + 1, VStr(acc))
        ELSE IF c # 92 THEN StrLoop(t, j + 1, acc \o << c >>)
        ELSE IF e \in {34, 92, 47} THEN StrLoop(t, j + 2, acc \o << e >>)
        ELSE IF e = 98 THEN StrLoop(t, j + 2, acc \o << 8 >>)
        ELSE IF e = 102 THEN StrLoop(t, j + 2, acc \o << 12 >>)
        ELSE IF e = 110 THEN StrLoop(t, j + 2, acc \o << 10 >>)
        ELSE IF e = 114 THEN StrLoop(t, j + 2, acc \o << 13 >>)
        ELSE IF e = 116 THEN StrLoop(t, j + 2, acc \o << 9 >>)
        ELSE IF e = 117 /\ \A k \in 1..4 : h[k] # -1
             THEN StrLoop(t, j + 6,
                      acc \o << h[1] * 4096 + h[2] * 256 + h[3] * 16 + h[4] >>)
        ELSE PFail

\* t[i] is the opening quote
ParseString(t, i) == StrLoop(t, i + 1, << >>)

\* -? (0 | [1-9][0-9]*) (. [0-9]+)? ([eE] [+-]? [0-9]+)?
ParseNumber(t, i) ==
    LET neg    == At(t, i) = 45
        i0     == IF neg THEN i + 1 ELSE i
        i1     == IF At(t, i0) = 48 THEN i0 + 1 ELSE DigitsEnd(t, i0)
        hasFr  == At(t, i1) = 46
        i2     == IF hasFr THEN DigitsEnd(t, i1 + 1) ELSE i1
        hasEx  == At(t, i2) \in {101, 69}
        i3     == IF hasEx /\ At(t, i2 + 1) \in {43, 45} THEN i2 + 2 ELSE i2 + 1
        i4     == IF hasEx THEN DigitsEnd(t, i3) ELSE i2
        mag    == DigitsValue(t, i0, i1, 0)
    IN  IF i1 = i0 \/ (hasFr /\ i2 = i1 + 1) \/ (hasEx /\ i4 = i3) THEN PFail
        ELSE IF hasFr \/ hasEx \/ i1 - i0 > 9 THEN POk(i4, VNum)
        ELSE POk(i4, VInt(IF neg THEN -mag ELSE mag))

ParseLiteral(t, i, word, name) ==
    IF \A k \in 1..Len(word) : At(t, i + k - 1) = word[k]
    THEN POk(i + Len(word), VLit(name))
    ELSE PFail

RECURSIVE ParseValue(_, _)
RECURSIVE MembersLoop(_, _, _)
RECURSIVE ElementsLoop(_, _)

\* t[i] is the opening brace; m lists the members as << key, value >>
ParseObject(t, i) ==
    LET j == SkipWs(t, i + 1)
    IN  IF At(t, j) = 125
        THEN [ok |-> TRUE, next |-> j + 1, val |-> VOther, m |-> << >>]
        ELSE MembersLoop(t, j, << >>)

MembersLoop(t, j, acc) ==
    IF At(t, j) # 34 THEN PFail
    ELSE LET k  == ParseString(t, j)
             c  == SkipWs(t, k.next)
             v  == ParseValue(t, SkipWs(t, c + 1))
             e  == SkipWs(t, v.next)
             m2 == Append(acc, << k.val.s, v.val >>)
         IN  IF ~k.ok \/ At(t, c) # 58 THEN PFail
             ELSE IF ~v.ok THEN PFail
             ELSE IF At(t, e) = 125
                  THEN [ok |-> TRUE, next |-> e + 1, val |-> VOther, m |-> m2]
             ELSE IF At(t, e) = 44 THEN MembersLoop(t, SkipWs(t, e + 1), m2)
             ELSE PFail

\* t[i] is the opening bracket
ParseArray(t, i) ==
    LET j == SkipWs(t, i + 1)
    IN  IF At(t, j) = 93 THEN POk(j + 1, VOther) ELSE ElementsLoop(t, j)

ElementsLoop(t, j) ==
    LET v == ParseValue(t, j)
        e == SkipWs(t, v.next)
    IN  IF ~v.ok THEN PFail
        ELSE IF At(t, e) = 93 THEN POk(e + 1, VOther)
        ELSE IF At(t, e) = 44 THEN ElementsLoop(t, SkipWs(t, e + 1))
        ELSE PFail

ParseValue(t, i) ==
    LET c == At(t, i)
    IN  IF c = 34 THEN ParseString(t, i)
        ELSE IF c = 123
             THEN LET o == ParseObject(t, i)
                  IN  IF o.ok THEN POk(o.next, VOther) ELSE PFail
        ELSE IF c = 91 THEN ParseArray(t, i)
        ELSE IF c = 116 THEN ParseLiteral(t, i, <<116, 114, 117, 101>>, "true")
        ELSE IF c = 102
             THEN ParseLiteral(t, i, <<102, 97, 108, 115, 101>>, "false")
        ELSE IF c = 110 THEN ParseLiteral(t, i, <<110, 117, 108, 108>>, "null")
        ELSE IF c = 45 \/ IsDigit(c) THEN ParseNumber(t, i)
        ELSE PFail

\* JSON.parse(text): ok is FALSE when it throws a SyntaxError; obj tells
\* whether the value is an object, whose members are m
JSONparse(text) ==
    LET i == SkipWs(text, 1)
        r == IF At(text, i) = 123 THEN ParseObject(text, i)
             ELSE ParseValue(text, i)
    IN  IF r.ok /\ SkipWs(text, r.next) = Len(text) + 1
        THEN [ok |-> TRUE, obj |-> At(text, i) = 123, m |-> r.m,
              null |-> r.val.t = "null" /\ At(text, i) # 123]
        ELSE [ok |-> FALSE, obj |-> FALSE, m |-> << >>, null |-> FALSE]

(***************************************************************************)
(* Bounds of the model                                                      *)
(***************************************************************************)
\* the wall clock when the engine is constructed (milliseconds)
StartTime == 300123456

\* how many times the clock advances by one time window
MaxWindowTicks == 4

\* how many times the clock advances by 24 hours
MaxDayTicks == 1

\* how many times the clock advances while one call runs
MaxCallTicks == 1

\* a custom time seed lies 24 hours plus 0..MaxCustomAhead windows ahead
MaxCustomAhead == 0

\* the device fingerprints an engine is constructed with
Fingerprints == { <<77, 111, 122>> }

\* the messages handed to encrypt: "", "hi", and the euro sign (U+20AC)
Messages == { << >>, <<104, 105>>, <<8364>> }

(***************************************************************************)
(* State                                                                    *)
(***************************************************************************)
VARIABLES
    now,          \* what Date.now() returns
    masterKey,    \* this.masterKey
    timeWindow,   \* this.timeWindow
    enc,          \* the encrypt call in progress or last finished
    dec,          \* the decrypt call in progress or last finished
    payload,      \* the last payload encrypt returned, with what went in
    callTicks,    \* how often the clock advanced during the running call
    calls,        \* the direct calls of the engine's helper methods so far
    app,          \* the AuthenticatorApp: its fields and the page it drives
    nfc,          \* the NFCHandler: its fields and the NDEFReaders it made
    tasks,        \* what the event loop still holds: promises, timers
    gps           \* the GPSHandler and navigator.geolocation

\* the variables outside the CryptoEngine
appVars == << app, nfc, tasks, gps >>

vars == << now, masterKey, timeWindow, enc, dec, payload, callTicks, calls,
           app, nfc, tasks, gps >>

\* an optional argument: << >> is null, << v >> the value v
Null == << >>

\* the operand of `x || y` is falsy: null or 0
Falsy(opt) == opt = Null \/ opt[1] = 0

NoOutcome == [status |-> "none", val |-> << >>, error |-> ""]

EncIdle == [pc |-> "idle", message |-> << >>, custom |-> Null, timeSeed |-> 0,
            timeKey |-> << >>, out |-> NoOutcome]

NoResult == [status |-> "none", val |-> Undefined, error |-> ""]

DecIdle == [pc |-> "idle", src |-> "none", data |-> << >>, encrypted |-> << >>,
            i |-> 0, probes |-> << >>, out |-> NoResult]

NoPayload == [set |-> FALSE, data |-> << >>, message |-> << >>, custom |-> Null,
              seed |-> 0, ts |-> 0]

(***************************************************************************)
(* CryptoEngine                                                             *)
(***************************************************************************)
generateMasterKey(deviceFingerprint) == simpleHash(deviceFingerprint \o secret)

getTimeSeed == now \div timeWindow

generateTimeKey(timeSeed) ==
    LET seed == IF Falsy(timeSeed) THEN getTimeSeed ELSE timeSeed[1]
    IN  simpleHash(masterKey \o NumToString(seed))

\* new NDEFReader(): no scan started, no listener added
NewReader == [scanning |-> FALSE, listeners |-> 0]

\* no tag event is being dispatched
NoDispatch == [left |-> 0, recordType |-> "", data |-> << >>]

\* handleNFCData has not run yet
NoDelivery ==
    [set |-> FALSE, mode |-> "", afterStop |-> FALSE,
     started |-> FALSE, isScanning |-> FALSE]

\* AuthenticatorApp's constructor, app.js 3-15: the fields, the scanner's
\* onclick property and the class lists of the five stage elements
AppInit ==
    [currentMode |-> "decrypt", isScanning |-> FALSE, onclick |-> "none",
     stages |-> [k \in 1..5 |-> {}]]

\* NFCHandler's constructor and init, nfc-handler.js 3-27, where the window
\* has NDEFReader (supported) or has not
NfcInit(supported) ==
    [isSupported |-> supported, isScanning |-> FALSE,
     reader |-> IF supported THEN 1 ELSE 0,
     readers |-> IF supported THEN << NewReader >> ELSE << >>]

\* nothing pending: no startScanning awaiting scan(), no pipeline, no timer
\* besides what is pending, tasks remembers: runs and scans, how many
\* pipelines and scans were started; trace, the engine calls the pipelines
\* made; afterStop, whether NFCHandler.stopScanning has run and
\* startScanning has not been called since; delivery, the last
\* handleNFCData
TasksInit ==
    [starts |-> << >>, pipelines |-> << >>, timers |-> << >>,
     dispatch |-> NoDispatch, simulating |-> FALSE,
     runs |-> 0, scans |-> 0, trace |-> << >>, afterStop |-> FALSE,
     delivery |-> NoDelivery]

\* GPSHandler's constructor, gps-handler.js 3-9, and a geolocation service
\* with no watch and no request
GpsInit ==
    [currentPosition |-> << >>, targetCoordinates |-> << >>, watchId |-> 0,
     isActive |-> FALSE, scale |-> 1000,
     watches |-> {}, requests |-> 0, lastWatch |-> 0, lastCall |-> ""]

InitEngine ==
    /\ now = StartTime
    /\ \E fp \in Fingerprints : masterKey = generateMasterKey(fp)
    /\ timeWindow = 300000
    /\ enc = EncIdle
    /\ dec = DecIdle
    /\ payload = NoPayload
    /\ callTicks = 0
    /\ calls = << >>

Init ==
    /\ InitEngine
    /\ app = AppInit
    /\ nfc = NfcInit(TRUE)
    /\ tasks = TasksInit
    /\ gps = GpsInit

\* no encrypt or decrypt call is running: the engine is synchronous, calls
\* do not interleave with each other, only with the clock
NoCall == enc.pc = "idle" /\ dec.pc = "idle"

\* encrypt, lines 96-97: the call once it has its time seed and time key
encrypt_seeded(message, customTimeSeed) ==
    LET timeSeed == IF Falsy(customTimeSeed) THEN getTimeSeed
                    ELSE customTimeSeed[1]
    IN  [pc |-> "seeded", message |-> message,
         custom |-> customTimeSeed, timeSeed |-> timeSeed,
         timeKey |-> generateTimeKey(<< timeSeed >>),
         out |-> NoOutcome]

\* encrypt(message, customTimeSeed) is called
encrypt_start(message, customTimeSeed) ==
    /\ NoCall
    /\ enc' = encrypt_seeded(message, customTimeSeed)
    /\ UNCHANGED << appVars, calls, now, masterKey, timeWindow, dec, payload, callTicks >>

\* encrypt, lines 100-117: the timestamp, the envelope, the cipher, base64
encrypt_finish ==
    /\ enc.pc = "seeded"
    /\ LET timestamp       == now
           messageWithMeta == StringifyEnvelope(enc.message, timestamp,
                                  enc.timeSeed,
                                  simpleHash(enc.message \o NumToString(timestamp)))
           encrypted       == xorCipher(messageWithMeta, enc.timeKey)
           base64Encrypted == btoa(encrypted)
       IN  IF base64Encrypted.ok
           THEN /\ enc' = [enc EXCEPT !.pc = "done",
                              !.out = [status |-> "return",
                                       val |-> PREFIX \o base64Encrypted.val,
                                       error |-> ""]]
                /\ payload' = [set |-> TRUE,
                               data |-> PREFIX \o base64Encrypted.val,
                               message |-> enc.message, custom |-> enc.custom,
                               seed |-> enc.timeSeed, ts |-> timestamp]
           ELSE /\ enc' = [enc EXCEPT !.pc = "done",
                              !.out = [status |-> "throw", val |-> << >>,
                                       error |-> "Encryption failed: "
                                                 \o "InvalidCharacterError"]]
                /\ UNCHANGED payload
    /\ UNCHANGED << appVars, calls, now, masterKey, timeWindow, dec, callTicks >>

(***************************************************************************)
(* attemptDecrypt: one probe of one time window                             *)
(***************************************************************************)
\* messageData[key]: the last member of that name, or undefined
Lookup(m, key) ==
    LET idx == { k \in 1..Len(m) : m[k][1] = key }
    IN  IF idx = {} THEN Undefined
        ELSE m[CHOOSE k \in idx : \A l \in idx : l <= k][2]

\* !v is certainly true: undefined, null, false, "" or 0
IsFalsy(v) ==
    \/ v.t \in {"undefined", "null", "false"}
    \/ v.t = "str" /\ v.s = << >>
    \/ v.t = "int" /\ v.n = 0

\* String(v) of a string, an integer or true
ToStr(v) ==
    IF v.t = "str" THEN v.s
    ELSE IF v.t = "int" THEN NumToString(v.n)
    ELSE <<116, 114, 117, 101>>

\* simpleHash(a + b): + concatenates when an operand is a string; otherwise
\* it adds numbers, and simpleHash of a number (no length, the loop does not
\* run) is "00000000"
HashOfSum(a, b) ==
    IF a.t = "str" \/ b.t = "str" THEN simpleHash(ToStr(a) \o ToStr(b))
    ELSE Hex4(0) \o Hex4(0)

\* what a probe gives: kind "null" (return null, also from the catch),
\* "value" (return messageData.msg, which is val) or "unmodelled" (the
\* outcome rests on the content of a value JSONparse does not represent).
\* seed is the window probed; valid: the envelope parsed and its checksum
\* verified; expired: it was valid and older than 24 hours.
ProbeResult(kind, val, seed, valid, expired) ==
    [kind |-> kind, val |-> val, seed |-> seed, valid |-> valid,
     expired |-> expired]

NullProbe(seed) == ProbeResult("null", Undefined, seed, FALSE, FALSE)

\* lines 164-181 without the comparison of the checksum
VerifyEnvelopeNoChecksum(msg, ts, checksum, useTimeSeed) ==
    IF IsFalsy(msg) \/ IsFalsy(ts) \/ IsFalsy(checksum)
    THEN NullProbe(useTimeSeed)
    ELSE IF ts.t # "int" \/ msg.t # "str"
         THEN ProbeResult("unmodelled", Undefined, useTimeSeed, FALSE, FALSE)
    ELSE IF now - ts.n > MaxAge
         THEN ProbeResult("null", Undefined, useTimeSeed, TRUE, TRUE)
    ELSE ProbeResult("value", msg, useTimeSeed, TRUE, FALSE)

\* lines 164-181 on the three properties read from messageData
VerifyEnvelope(msg, ts, checksum, useTimeSeed) ==
    \* if (!messageData.msg || !messageData.ts || !messageData.checksum)
    IF IsFalsy(msg) \/ IsFalsy(ts) \/ IsFalsy(checksum)
    THEN NullProbe(useTimeSeed)
    \* a checksum that is no string never === the expected one
    ELSE IF checksum.t # "str" THEN NullProbe(useTimeSeed)
    ELSE IF msg.t \in {"num", "other"} \/ ts.t \in {"num", "other"}
         THEN ProbeResult("unmodelled", Undefined, useTimeSeed, FALSE, FALSE)
    ELSE IF checksum.s # HashOfSum(msg, ts) THEN NullProbe(useTimeSeed)
    ELSE IF ts.t = "str"
         THEN ProbeResult("unmodelled", Undefined, useTimeSeed, FALSE, FALSE)
    \* age = Date.now() - messageData.ts; throw new Error('Message expired')
    \* is caught by the catch of the same function, which returns null
    ELSE IF now - (IF ts.t = "int" THEN ts.n ELSE 1) > MaxAge
         THEN ProbeResult("null", Undefined, useTimeSeed, TRUE, TRUE)
    ELSE ProbeResult("value", msg, useTimeSeed, TRUE, FALSE)

\* lines 162-167 and 183-185: JSON.parse throws, or reading a property of
\* null throws, and the catch returns null
ReadEnvelope(messageData, useTimeSeed) ==
    IF ~messageData.ok \/ messageData.null THEN NullProbe(useTimeSeed)
    ELSE VerifyEnvelope(Lookup(messageData.m, KeyMsg),
                        Lookup(messageData.m, KeyTs),
                        Lookup(messageData.m, KeyChecksum), useTimeSeed)

\* lines 158-162 once useTimeSeed is known
ProbeWindow(encrypted, useTimeSeed) ==
    ReadEnvelope(
        JSONparse(xorCipher(encrypted, generateTimeKey(<< useTimeSeed >>))),
        useTimeSeed)

attemptDecrypt(encrypted, timeSeed) ==
    ProbeWindow(encrypted,
                IF Falsy(timeSeed) THEN getTimeSeed ELSE timeSeed[1])

(***************************************************************************)
(* decrypt                                                                  *)
(***************************************************************************)
StartsWith(data, prefix) ==
    Len(data) >= Len(prefix) /\ SubSeq(data, 1, Len(prefix)) = prefix

Thrown(error) == [status |-> "throw", val |-> Undefined, error |-> error]

Returned(val) == [status |-> "return", val |-> val, error |-> ""]

\* decrypt, lines 124-129: the call after the prefix check and the base64
\* decoding; src tells where the caller took data from
decrypt_decoded(src, encryptedData) ==
    LET base64Data == SubSeq(encryptedData, 5, Len(encryptedData))
        encrypted  == atob(base64Data)
        call       == [DecIdle EXCEPT !.src = src, !.data = encryptedData]
    IN  IF ~StartsWith(encryptedData, PREFIX)
        THEN [call EXCEPT !.pc = "done",
                 !.out = Thrown("Decryption failed: "
                                \o "Invalid encrypted format")]
        ELSE IF ~encrypted.ok
        THEN [call EXCEPT !.pc = "done",
                 !.out = Thrown("Decryption failed: "
                                \o "InvalidCharacterError")]
        ELSE [call EXCEPT !.pc = "probing",
                          !.encrypted = encrypted.val]

\* decrypt(encryptedData) is called
decrypt_start(src, encryptedData) ==
    /\ NoCall
    /\ dec' = decrypt_decoded(src, encryptedData)
    /\ UNCHANGED << appVars, calls, now, masterKey, timeWindow, enc, payload, callTicks >>

\* AfterProbe with a retry loop that runs once more: i <= 4
AfterProbeOneMore(decrypted) ==
    LET probes == Append(dec.probes,
                      [seed |-> decrypted.seed, at |-> getTimeSeed,
                       kind |-> decrypted.kind, val |-> decrypted.val,
                       valid |-> decrypted.valid,
                       expired |-> decrypted.expired])
    IN  IF decrypted.kind = "value"
        THEN [dec EXCEPT !.pc = "done", !.probes = probes,
                         !.out = Returned(decrypted.val)]
        ELSE IF dec.i = 4
        THEN [dec EXCEPT !.pc = "done", !.probes = probes,
                 !.out = Thrown("Decryption failed: " \o
                     "Decryption failed - invalid key or expired data")]
        ELSE [dec EXCEPT !.i = dec.i + 1, !.probes = probes]

\* AfterProbe without lines 143-145: when every probe failed, decrypt
\* returns the null it was left with
AfterProbeNoThrow(decrypted) ==
    LET probes == Append(dec.probes,
                      [seed |-> decrypted.seed, at |-> getTimeSeed,
                       kind |-> decrypted.kind, val |-> decrypted.val,
                       valid |-> decrypted.valid,
                       expired |-> decrypted.expired])
    IN  IF decrypted.kind = "value"
        THEN [dec EXCEPT !.pc = "done", !.probes = probes,
                         !.out = Returned(decrypted.val)]
        ELSE IF dec.i = 3
        THEN [dec EXCEPT !.pc = "done", !.probes = probes,
                         !.out = Returned(VLit("null"))]
        ELSE [dec EXCEPT !.i = dec.i + 1, !.probes = probes]

\* decrypt, lines 135-147: what follows a probe that gave `decrypted`
AfterProbe(decrypted) ==
    LET probes == Append(dec.probes,
                      [seed |-> decrypted.seed, at |-> getTimeSeed,
                       kind |-> decrypted.kind, val |-> decrypted.val,
                       valid |-> decrypted.valid,
                       expired |-> decrypted.expired])
    IN  IF decrypted.kind = "value"
        THEN [dec EXCEPT !.pc = "done", !.probes = probes,
                         !.out = Returned(decrypted.val)]
        ELSE IF decrypted.kind = "unmodelled"
        THEN [dec EXCEPT !.pc = "done", !.probes = probes,
                 !.out = [status |-> "unmodelled", val |-> Undefined,
                          error |-> ""]]
        ELSE IF dec.i = 3
        THEN [dec EXCEPT !.pc = "done", !.probes = probes,
                 !.out = Thrown("Decryption failed: " \o
                     "Decryption failed - invalid key or expired data")]
        ELSE [dec EXCEPT !.i = dec.i + 1, !.probes = probes]

\* a retry loop that looks i windows ahead of the current one
futureTimeSeed(i) == getTimeSeed + i

\* line 137: const pastTimeSeed = this.getTimeSeed() - i
pastTimeSeed(i) == getTimeSeed - i

\* decrypt, lines 132-141: one call of attemptDecrypt, for the current
\* window when i = 0 and for getTimeSeed() - i in the loop
decrypt_probe ==
    /\ dec.pc = "probing"
    /\ dec' = AfterProbe(attemptDecrypt(dec.encrypted,
                  IF dec.i = 0 THEN Null ELSE << pastTimeSeed(dec.i) >>))
    /\ UNCHANGED << appVars, calls, now, masterKey, timeWindow, enc, payload, callTicks >>

(***************************************************************************)
(* The callers and the clock                                                *)
(***************************************************************************)
\* "not-nfc-data"
NotNfcData == <<110, 111, 116, 45, 110, 102, 99, 45, 100, 97, 116, 97>>

\* the fixed inputs of decrypt: "not-nfc-data", "NFC_", and "NFC_!!!!"
Literals == { NotNfcData, PREFIX, PREFIX \o <<33, 33, 33, 33>> }

\* the custom time seeds handed to encrypt: none, or a window that will be
\* current 24 hours from now or a little later
CustomSeeds ==
    { Null } \cup { << getTimeSeed + (MaxAge \div timeWindow) + k >> :
                    k \in 0..MaxCustomAhead }

Encrypt == \E m \in Messages, c \in CustomSeeds : encrypt_start(m, c)

DecryptPayload == payload.set /\ decrypt_start("payload", payload.data)

DecryptLiteral == \E d \in Literals : decrypt_start("literal", d)

\* the caller has taken what the finished call returned or threw
Return ==
    /\ enc.pc = "done" \/ dec.pc = "done"
    /\ enc' = EncIdle
    /\ dec' = DecIdle
    /\ callTicks' = 0
    /\ UNCHANGED << appVars, calls, now, masterKey, timeWindow, payload >>

\* the clock advances between calls and, up to MaxCallTicks times, while a
\* call runs
CanTick == NoCall \/ (enc.pc # "done" /\ dec.pc # "done"
                      /\ callTicks < MaxCallTicks)

Ticked == IF NoCall THEN 0 ELSE callTicks + 1

WindowsElapsed == (now - StartTime) \div timeWindow

\* the wall clock advances by one time window
TickWindow ==
    /\ CanTick
    /\ WindowsElapsed % (MaxAge \div timeWindow) < MaxWindowTicks
    /\ now' = now + timeWindow
    /\ callTicks' = Ticked
    /\ UNCHANGED << appVars, calls, masterKey, timeWindow, enc, dec, payload >>

\* the wall clock advances by 24 hours
TickDay ==
    /\ CanTick
    /\ WindowsElapsed \div (MaxAge \div timeWindow) < MaxDayTicks
    /\ now' = now + MaxAge
    /\ callTicks' = Ticked
    /\ UNCHANGED << appVars, calls, masterKey, timeWindow, enc, dec, payload >>

Next ==
    \/ Encrypt
    \/ encrypt_finish
    \/ DecryptPayload
    \/ DecryptLiteral
    \/ decrypt_probe
    \/ Return
    \/ TickWindow
    \/ TickDay

Spec == Init /\ [][Next]_vars

(***************************************************************************)
(* Tampering with a payload in transit                                      *)
(***************************************************************************)
\* how far a tampered character is moved in the base64 symbols
MaxTamperDelta == 1

\* the 65 symbols of a base64 body: the alphabet and the padding '='
B64Symbol(i) == IF i = 64 THEN 61 ELSE B64Char(i)

B64SymbolIndex(c) == IF c = 61 THEN 64 ELSE B64Index(c)

\* data with the character at pos replaced by the symbol d places further
Tampered(data, pos, d) ==
    [data EXCEPT ![pos] = B64Symbol((B64SymbolIndex(data[pos]) + d) % 65)]

DecryptTampered ==
    /\ payload.set
    /\ \E pos \in (Len(PREFIX) + 1)..Len(payload.data), d \in 1..MaxTamperDelta :
           decrypt_start("tampered", Tampered(payload.data, pos, d))

EncryptNow == \E m \in Messages : encrypt_start(m, Null)

NextTamper ==
    \/ EncryptNow
    \/ encrypt_finish
    \/ DecryptTampered
    \/ decrypt_probe
    \/ Return

SpecTamper == Init /\ [][NextTamper]_vars

(***************************************************************************)
(* A sender whose clock is ahead of the receiver's                          *)
(***************************************************************************)
\* by how many windows the receiver's clock is behind the sender's
MaxSenderAhead == 2

\* the payload reaches a receiver with the same master key whose clock is
\* k windows behind: from here on Date.now() is the receiver's clock
ReceiverBehind ==
    /\ NoCall
    /\ payload.set
    /\ \E k \in 1..MaxSenderAhead :
           /\ now - k * timeWindow >= StartTime
           /\ now' = now - k * timeWindow
    /\ callTicks' = 0
    /\ UNCHANGED << appVars, calls, masterKey, timeWindow, enc, dec, payload >>

NextAhead ==
    \/ EncryptNow
    \/ encrypt_finish
    \/ DecryptPayload
    \/ decrypt_probe
    \/ Return
    \/ TickWindow
    \/ ReceiverBehind

SpecAhead == Init /\ [][NextAhead]_vars

(***************************************************************************)
(* Payloads of any age, intact or tampered with                             *)
(***************************************************************************)
\* the sender encrypts as soon as the engine is constructed
EncryptFirst == now = StartTime /\ Encrypt

\* the clock advances while no call runs
WindowPasses == NoCall /\ TickWindow

DayPasses == NoCall /\ TickDay

NextVerify ==
    \/ EncryptFirst
    \/ encrypt_finish
    \/ DecryptPayload
    \/ DecryptTampered
    \/ DecryptLiteral
    \/ decrypt_probe
    \/ Return
    \/ WindowPasses
    \/ DayPasses

SpecVerify == Init /\ [][NextVerify]_vars

(***************************************************************************)
(* Direct calls of generateTimeKey                                          *)
(***************************************************************************)
\* generateTimeKey is called for the windows 0..MaxKeyWindow
MaxKeyWindow == 2

\* a call of a helper method: op its name, a and b its string arguments,
\* n its integer argument, at the clock when it ran, out what it returned
Call(op, a, b, n, out) ==
    [op |-> op, a |-> a, b |-> b, n |-> n, at |-> now, out |-> out]

\* generateTimeKey(w) keeping the key it derived as the master key
call_generateTimeKey_keeping(w) ==
    /\ NoCall
    /\ Len(calls) < 2
    /\ calls' = Append(calls, Call("generateTimeKey", << >>, << >>, w,
                                   generateTimeKey(<< w >>)))
    /\ masterKey' = generateTimeKey(<< w >>)
    /\ UNCHANGED << appVars, now, timeWindow, enc, dec, payload, callTicks >>

\* this.generateTimeKey(w)
call_generateTimeKey(w) ==
    /\ NoCall
    /\ Len(calls) < 2
    /\ calls' = Append(calls, Call("generateTimeKey", << >>, << >>, w,
                                   generateTimeKey(<< w >>)))
    /\ UNCHANGED << appVars, now, masterKey, timeWindow, enc, dec, payload, callTicks >>

GenerateTimeKey ==
    \E w \in (0..MaxKeyWindow) \cup {getTimeSeed} : call_generateTimeKey(w)

NextKey ==
    \/ GenerateTimeKey
    \/ TickWindow
    \/ TickDay

SpecKey == Init /\ [][NextKey]_vars

(***************************************************************************)
(* isValidEncryptedFormat                                                   *)
(***************************************************************************)
\* the character class [A-Za-z0-9+/=]
InClass(c) == B64SymbolIndex(c) # -1

\* /^NFC_[A-Za-z0-9+/=]+$/.test(data)
MatchesPattern(data) ==
    /\ StartsWith(data, PREFIX)
    /\ Len(data) > Len(PREFIX)
    /\ \A i \in (Len(PREFIX) + 1)..Len(data) : InClass(data[i])

\* the format test without data.length > 10
isValidWithoutLength(data) ==
    /\ data.t = "str"
    /\ StartsWith(data.s, PREFIX)
    /\ MatchesPattern(data.s)

\* data is any value: VStr(s) for a string, otherwise a number, null, ...
isValidEncryptedFormat(data) ==
    /\ data.t = "str"
    /\ StartsWith(data.s, PREFIX)
    /\ Len(data.s) > 10
    /\ MatchesPattern(data.s)

\* the longest text after "NFC_" handed to isValidEncryptedFormat
MaxBodyLen == 7

\* 'A', '=', '!' and a line feed
BodyChars == {65, 61, 33, 10}

\* k times 'A' with the character at one place replaced
Bodies(k) == { [i \in 1..k |-> IF i = j THEN c ELSE 65] : j \in 1..k, c \in BodyChars }

\* values that are no strings: 5, null, undefined, an object
NonStrings == { VInt(5), VLit("null"), Undefined, VOther }

\* "NFC_", "nfc_" and "XNFC_" followed by MaxBodyLen - 1 or MaxBodyLen
\* characters, and shorter strings
FormatInputs ==
    NonStrings
    \cup { VStr(PREFIX \o b) : b \in Bodies(MaxBodyLen - 1) \cup Bodies(MaxBodyLen) }
    \cup { VStr(p \o [i \in 1..k |-> 65]) :
              p \in { <<110, 102, 99, 95>>, <<88>> \o PREFIX },
              k \in (MaxBodyLen - 1)..MaxBodyLen }
    \cup { VStr(<< >>), VStr(PREFIX), VStr(NotNfcData) }

\* this.isValidEncryptedFormat(data)
call_isValidEncryptedFormat(data) ==
    /\ NoCall
    /\ calls' = << [op |-> "isValidEncryptedFormat", data |-> data,
                    at |-> now, out |-> isValidEncryptedFormat(data)] >>
    /\ UNCHANGED << appVars, now, masterKey, timeWindow, enc, dec, payload, callTicks >>

IsValidEncryptedFormat ==
    \/ \E data \in FormatInputs : call_isValidEncryptedFormat(data)
    \/ payload.set /\ call_isValidEncryptedFormat(VStr(payload.data))

NextFormat ==
    \/ EncryptNow
    \/ encrypt_finish
    \/ Return
    \/ IsValidEncryptedFormat

SpecFormat == Init /\ [][NextFormat]_vars

(***************************************************************************)
(* GPSHandler, src/gps-module/gps-handler.js.  Places lie on one line and  *)
(* are given in metres, so that the distance of two places is the          *)
(* difference of their numbers; the bearing plays no part in the scale.    *)
(***************************************************************************)
\* the engine and the app are left alone
NoEngineStep ==
    UNCHANGED << now, masterKey, timeWindow, enc, dec, payload, callTicks >>

\* how many watches and one-shot requests the geolocation service takes
MaxWatches == 3

MaxRequests == 1

\* what parseCoordinates gives for the strings handed to show: null for a
\* string that is no coordinate pair, otherwise the place
Targets == { Null, << 0 >> }

\* the places the device reports
Places == { 10, 90, 150, 900, 4500, 30000 }

\* calculateDistance(pos1, pos2)
calculateDistance(pos1, pos2) == IF pos1 >= pos2 THEN pos1 - pos2 ELSE pos2 - pos1

\* adjustScale(distance), lines 217-237: the scale it leaves in this.scale;
\* distance > scale * 0.8 and distance < scale * 0.2 in whole metres
adjustScale(scale, distance) ==
    IF distance * 5 > scale * 4
    THEN (IF distance < 5000 THEN 5000
          ELSE IF distance < 20000 THEN 20000 ELSE 100000)
    ELSE IF distance * 5 < scale
         THEN (IF distance > 200 THEN 1000
               ELSE IF distance > 50 THEN 200 ELSE 100)
         ELSE scale

\* startGPSTracking, lines 102-129: a one-shot request and a new watch,
\* whose id replaces this.watchId; the service numbers its watches 1, 2, ...
startGPSTracking(g) ==
    [g EXCEPT !.requests = @ + 1,
              !.watchId = g.lastWatch + 1,
              !.watches = @ \cup { g.lastWatch + 1 },
              !.lastWatch = @ + 1]

\* stopGPSTracking, lines 132-137
stopGPSTracking(g) ==
    IF g.watchId # 0
    THEN [g EXCEPT !.watches = @ \ { g.watchId }, !.watchId = 0]
    ELSE g

\* lastCall names the last of show, hide and refreshGPS; the service takes
\* another watch and another request
CanTrack == gps.lastWatch < MaxWatches /\ gps.requests < MaxRequests

\* show(coordinates), lines 47-63
show(target) ==
    /\ target # Null => CanTrack
    /\ gps' = IF target = Null
              THEN [gps EXCEPT !.targetCoordinates = Null, !.lastCall = "show"]
              ELSE startGPSTracking([gps EXCEPT !.targetCoordinates = target,
                                                !.isActive = TRUE,
                                                !.lastCall = "show"])
    /\ NoEngineStep
    /\ UNCHANGED << calls, app, nfc, tasks >>

Show == \E target \in Targets : show(target)

\* hide(), lines 66-70
hide ==
    /\ gps' = stopGPSTracking([gps EXCEPT !.isActive = FALSE,
                                          !.lastCall = "hide"])
    /\ NoEngineStep
    /\ UNCHANGED << calls, app, nfc, tasks >>

\* refreshGPS(), lines 306-309
refreshGPS ==
    /\ CanTrack
    /\ gps' = startGPSTracking([gps EXCEPT !.lastCall = "refreshGPS"])
    /\ NoEngineStep
    /\ UNCHANGED << calls, app, nfc, tasks >>

\* updateRadar's call of adjustScale, lines 189-195, as the last two calls
\* of it are remembered
AdjustCalls(g, position) ==
    IF g.targetCoordinates = Null THEN calls
    ELSE LET distance == calculateDistance(position, g.targetCoordinates[1])
             call == [op |-> "adjustScale", distance |-> distance,
                      before |-> g.scale,
                      out |-> adjustScale(g.scale, distance)]
         IN  IF Len(calls) = 0 THEN << call >> ELSE << calls[Len(calls)], call >>

\* onPositionUpdate(position), lines 140-149, with updateRadar, 188-214
onPositionUpdate(g, position) ==
    IF g.targetCoordinates = Null
    THEN [g EXCEPT !.currentPosition = << position >>]
    ELSE [g EXCEPT !.currentPosition = << position >>,
                   !.scale = adjustScale(g.scale,
                       calculateDistance(position, g.targetCoordinates[1]))]

\* a registered watch reports a place
WatchReports ==
    \E id \in gps.watches, position \in Places :
        /\ gps' = onPositionUpdate(gps, position)
        /\ calls' = AdjustCalls(gps, position)
        /\ NoEngineStep
        /\ UNCHANGED << app, nfc, tasks >>

\* the one-shot request of getCurrentPosition reports a place
RequestReports ==
    \E position \in Places :
        /\ gps.requests > 0
        /\ gps' = onPositionUpdate([gps EXCEPT !.requests = @ - 1], position)
        /\ calls' = AdjustCalls(gps, position)
        /\ NoEngineStep
        /\ UNCHANGED << app, nfc, tasks >>

\* the one-shot request fails: onPositionError, lines 152-168, writes the
\* status line only
RequestFails ==
    /\ gps.requests > 0
    /\ gps' = [gps EXCEPT !.requests = @ - 1]
    /\ NoEngineStep
    /\ UNCHANGED << calls, app, nfc, tasks >>

NextGps ==
    \/ Show
    \/ hide
    \/ refreshGPS
    \/ WatchReports
    \/ RequestReports
    \/ RequestFails

SpecGps == Init /\ [][NextGps]_vars

(***************************************************************************)
(* AuthenticatorApp, src/app.js, and NFCHandler, src/nfc-handler.js.  The  *)
(* methods call each other, so each is written as a function of the page:  *)
(* the app, the handler and the event loop in one record.  What a method    *)
(* does after an await is a step of its own.  The status line and the      *)
(* styles a method sets are left out.                                      *)
(***************************************************************************)
\* how many scans and pipelines are started, and how many 'reading'
\* listeners one reader takes
MaxScans == 2

MaxRuns == 2

MaxListeners == 2

Page == [app |-> app, nfc |-> nfc, tasks |-> tasks]

Becomes(s) == app' = s.app /\ nfc' = s.nfc /\ tasks' = s.tasks

\* no handler is running: no engine call and no tag event under way
Quiet == NoCall /\ tasks.dispatch.left = 0 /\ ~tasks.simulating

Remove(seq, i) == SubSeq(seq, 1, i - 1) \o SubSeq(seq, i + 1, Len(seq))

\* NFCHandler.stopScanning, nfc-handler.js 86-104
stopScanning(s) ==
    IF ~s.nfc.isScanning THEN s
    ELSE IF s.nfc.reader # 0
    THEN [s EXCEPT !.nfc.readers = Append(@, NewReader),
                   !.nfc.reader = Len(s.nfc.readers) + 1,
                   !.nfc.isScanning = FALSE,
                   !.tasks.afterStop = TRUE]
    ELSE [s EXCEPT !.nfc.isScanning = FALSE, !.tasks.afterStop = TRUE]

\* NFCHandler.startScanning with checkPermissions, nfc-handler.js 51-57 and
\* 30-37, up to the await of this.reader.scan()
startScanning(s) ==
    IF s.nfc.isScanning THEN [s EXCEPT !.tasks.afterStop = FALSE]
    ELSE [s EXCEPT !.tasks.afterStop = FALSE,
                   !.tasks.scans = @ + 1,
                   !.tasks.starts = Append(@, [pc |-> "permission",
                                               reader |-> s.nfc.reader])]

\* stopNFCScanning, app.js 154-164
stopNFCScanning(s) ==
    IF s.nfc.isSupported
    THEN [stopScanning([s EXCEPT !.app.isScanning = FALSE])
              EXCEPT !.app.onclick = "toggle"]
    ELSE [s EXCEPT !.app.isScanning = FALSE, !.app.onclick = "toggle"]

\* startNFCScanning, app.js 135-146
startNFCScanning(s) ==
    IF s.nfc.isSupported
    THEN startScanning([s EXCEPT !.app.isScanning = TRUE])
    ELSE [s EXCEPT !.app.isScanning = TRUE, !.app.onclick = "simulate"]

\* toggleNFCScanning, app.js 126-132
toggleNFCScanning(s) ==
    IF s.app.isScanning THEN stopNFCScanning(s) ELSE startNFCScanning(s)

\* switchMode(mode), app.js 108-123
switchMode(s, mode) ==
    IF s.app.isScanning
    THEN stopNFCScanning([s EXCEPT !.app.currentMode = mode])
    ELSE [s EXCEPT !.app.currentMode = mode]

\* the first stage element with class 'active', 0 when there is none:
\* document.querySelector('.decryption-stage.active'), the stages standing
\* in the page in the order of their numbers
FirstActive(stages) ==
    IF \E k \in 1..5 : "active" \in stages[k]
    THEN CHOOSE k \in 1..5 : /\ "active" \in stages[k]
                             /\ \A j \in 1..(k - 1) : "active" \notin stages[j]
    ELSE 0

\* the catch of showDecryptionAnimation, app.js 419-427
MarkFailed(stages) ==
    IF FirstActive(stages) = 0 THEN stages
    ELSE [stages EXCEPT ![FirstActive(stages)] = (@ \ {"active"}) \cup {"failed"}]

\* app.js 372-377 and 447: every stage reset, stage 1 active
StagesReset == [k \in 1..5 |-> IF k = 1 THEN {"active"} ELSE {}]

\* animateStage ends stage k (454-455) and the next call starts stage
\* k + 1 (447)
StageCompleted(stages, k) ==
    [j \in 1..5 |-> IF j = k THEN (stages[j] \ {"active"}) \cup {"completed"}
                    ELSE IF j = k + 1 THEN stages[j] \cup {"active"}
                    ELSE stages[j]]

\* a pipeline: one call of showDecryptionAnimation; pc tells which await it
\* is at, failed which stage its catch marked, error the message caught
Pipeline(run, data, pc, failed, error) ==
    [run |-> run, data |-> data, pc |-> pc, failed |-> failed, error |-> error,
     decryptedMessage |-> Undefined]

\* showDecryptionAnimation that goes on after a failed format check
showDecryptionAnimationUnchecked(s, data) ==
    [s EXCEPT !.app.stages = StagesReset,
              !.tasks.runs = @ + 1,
              !.tasks.trace = Append(@, [op |-> "isValidEncryptedFormat",
                                         run |-> s.tasks.runs + 1, data |-> data,
                                         out |-> isValidEncryptedFormat(VStr(data))]),
              !.tasks.pipelines = Append(@,
                  Pipeline(s.tasks.runs + 1, data, "delay1", 0, ""))]

\* showDecryptionAnimation(data), app.js 361-386 and, when the format check
\* throws, 419-433: up to the first delay
showDecryptionAnimation(s, data) ==
    [s EXCEPT !.app.stages = IF isValidEncryptedFormat(VStr(data))
                             THEN StagesReset ELSE MarkFailed(StagesReset),
              !.tasks.runs = @ + 1,
              !.tasks.trace = Append(@, [op |-> "isValidEncryptedFormat",
                                         run |-> s.tasks.runs + 1, data |-> data,
                                         out |-> isValidEncryptedFormat(VStr(data))]),
              !.tasks.pipelines = Append(@,
                  IF isValidEncryptedFormat(VStr(data))
                  THEN Pipeline(s.tasks.runs + 1, data, "delay1", 0, "")
                  ELSE Pipeline(s.tasks.runs + 1, data, "closing",
                                FirstActive(StagesReset),
                                "Invalid encrypted data format"))]

\* what handleNFCData is remembered by
Delivered(before, piped, after) ==
    [after EXCEPT !.tasks.delivery =
        [set |-> TRUE, mode |-> before.app.currentMode,
         afterStop |-> before.tasks.afterStop,
         started |-> piped.tasks.runs # before.tasks.runs,
         isScanning |-> after.app.isScanning]]

\* handleNFCData that starts the pipeline in either mode
handleNFCDataAnyMode(s, data) ==
    Delivered(s, showDecryptionAnimation(s, data),
              stopNFCScanning(showDecryptionAnimation(s, data)))

\* handleNFCData(data), app.js 167-175
handleNFCData(s, data) ==
    IF s.app.currentMode = "decrypt"
    THEN Delivered(s, showDecryptionAnimation(s, data),
                   stopNFCScanning(showDecryptionAnimation(s, data)))
    ELSE Delivered(s, s, stopNFCScanning(s))

\* handleNFCRead(event) for an event with one record, nfc-handler.js
\* 107-139; data is the text the TextDecoder gives
handleNFCRead(s, recordType, data) ==
    IF recordType \in { "text", "url" } THEN handleNFCData(s, data) ELSE s

\* the catch of startScanning, nfc-handler.js 78-82, and the catch of
\* startNFCScanning, app.js 147-150, for the pending start i
startFailed(s, i) ==
    stopNFCScanning([s EXCEPT !.nfc.isScanning = FALSE,
                              !.tasks.starts = Remove(@, i)])

\* the engine is not called and not read
AppStep == NoEngineStep /\ UNCHANGED << calls, gps >>

\* the scanner is clicked: its 'click' listener, app.js 88
Toggle ==
    /\ Quiet
    /\ ~app.isScanning => tasks.scans < MaxScans
    /\ Becomes(toggleNFCScanning(Page))
    /\ AppStep

\* the scanner's onclick property, set at app.js 145 and 163, runs
\* toggleNFCScanning
OnclickToggle ==
    /\ Quiet
    /\ app.onclick = "toggle"
    /\ ~app.isScanning => tasks.scans < MaxScans
    /\ Becomes(toggleNFCScanning(Page))
    /\ AppStep

\* one of the mode buttons is clicked, app.js 84-85
SwitchMode ==
    \E mode \in { "decrypt", "encrypt" } :
        /\ Quiet
        /\ Becomes(switchMode(Page, mode))
        /\ AppStep

\* the promise of checkPermissions' this.reader.scan() is fulfilled:
\* nfc-handler.js 38 and 59-76, up to the await of the second scan()
PermissionGranted ==
    \E i \in 1..Len(tasks.starts) :
        /\ Quiet
        /\ tasks.starts[i].pc = "permission"
        /\ nfc.readers[nfc.reader].listeners < MaxListeners
        /\ Becomes([Page EXCEPT
               !.nfc.isScanning = TRUE,
               !.nfc.readers =
                   [r \in 1..Len(nfc.readers) |->
                       [scanning  |-> nfc.readers[r].scanning
                                      \/ r = tasks.starts[i].reader,
                        listeners |-> IF r = nfc.reader
                                      THEN nfc.readers[r].listeners + 1
                                      ELSE nfc.readers[r].listeners]],
               !.tasks.starts[i] = [pc |-> "scan", reader |-> nfc.reader]])
        /\ AppStep

\* the promise of a scan() is rejected, in checkPermissions or at line 74
ScanRejected ==
    \E i \in 1..Len(tasks.starts) :
        /\ Quiet
        /\ Becomes(startFailed(Page, i))
        /\ AppStep

\* the promise of the scan() of line 74 is fulfilled: startScanning and
\* startNFCScanning return
ScanStarted ==
    \E i \in 1..Len(tasks.starts) :
        /\ Quiet
        /\ tasks.starts[i].pc = "scan"
        /\ Becomes([Page EXCEPT
               !.nfc.readers[tasks.starts[i].reader].scanning = TRUE,
               !.tasks.starts = Remove(@, i)])
        /\ AppStep

\* the texts on the tags: "not-nfc-data" and "NFC_AAAAAAAA"
TagTexts == { NotNfcData, PREFIX \o <<65, 65, 65, 65, 65, 65, 65, 65>> }

\* a reader that scans reports a tag with one record: the event goes to
\* each of its 'reading' listeners in turn
TagRead ==
    \E r \in 1..Len(nfc.readers), recordType \in { "text", "url", "mime" },
       data \in TagTexts :
        /\ Quiet
        /\ nfc.readers[r].scanning
        /\ nfc.readers[r].listeners > 0
        /\ tasks' = [tasks EXCEPT !.dispatch =
                        [left |-> nfc.readers[r].listeners,
                         recordType |-> recordType, data |-> data]]
        /\ UNCHANGED << app, nfc >>
        /\ AppStep

\* the next 'reading' listener runs: nfc-handler.js 63-65
ReadingListener ==
    /\ NoCall
    /\ tasks.dispatch.left > 0
    /\ (app.currentMode = "decrypt"
        /\ tasks.dispatch.recordType \in { "text", "url" })
           => tasks.runs < MaxRuns
    /\ Becomes(handleNFCRead(
           [Page EXCEPT !.tasks.dispatch =
               IF tasks.dispatch.left = 1 THEN NoDispatch
               ELSE [tasks.dispatch EXCEPT !.left = @ - 1]],
           tasks.dispatch.recordType, tasks.dispatch.data))
    /\ AppStep

\* a reader that scans reports an error to its 'readingerror' listeners:
\* nfc-handler.js 67-71
ReadingError ==
    \E r \in 1..Len(nfc.readers) :
        /\ Quiet
        /\ nfc.readers[r].scanning
        /\ nfc.readers[r].listeners > 0
        /\ Becomes(stopScanning(Page))
        /\ AppStep

(***************************************************************************)
(* The decryption pipeline, app.js 361-439, fed by the manual input        *)
(***************************************************************************)
\* what String.prototype.trim removes
IsWhiteSpace(c) ==
    c \in {9, 10, 11, 12, 13, 32, 160, 5760, 8232, 8233, 8239, 8287, 12288, 65279}
         \cup (8192..8202)

RECURSIVE TrimStart(_)
TrimStart(str) ==
    IF Len(str) > 0 /\ IsWhiteSpace(str[1]) THEN TrimStart(Tail(str)) ELSE str

RECURSIVE TrimEnd(_)
TrimEnd(str) ==
    IF Len(str) > 0 /\ IsWhiteSpace(str[Len(str)])
    THEN TrimEnd(SubSeq(str, 1, Len(str) - 1)) ELSE str

\* str.trim()
Trim(str) == TrimEnd(TrimStart(str))

\* what is typed into the input: nothing, a blank, "not-nfc-data", and
\* " NFC_AAAAAAAA " with a blank on either side
TypedInputs ==
    { << >>, <<32>>, NotNfcData,
      <<32>> \o PREFIX \o <<65, 65, 65, 65, 65, 65, 65, 65>> \o <<32>> }

\* decryptManualInput, app.js 195-204, for the input's value
decryptManualInput(value) ==
    /\ Quiet
    /\ Trim(value) # << >> => tasks.runs < MaxRuns
    /\ Becomes(IF Trim(value) = << >> THEN Page
               ELSE showDecryptionAnimation(Page, Trim(value)))
    /\ AppStep

\* the decrypt button is clicked with a typed text or with the payload
\* that encryptMessage has shown
DecryptManualInput ==
    \/ \E value \in TypedInputs : decryptManualInput(value)
    \/ payload.set /\ decryptManualInput(payload.data)

\* encryptMessage, app.js 207-218, for the input's value
encryptMessage ==
    \E value \in Messages :
        /\ Quiet
        /\ Trim(value) # << >>
        /\ encrypt_start(Trim(value), Null)

\* encryptMessage, app.js 220-227: the payload or the error is shown
encryptMessage_shown == enc.pc = "done" /\ ~tasks.simulating /\ Return

\* the delay of stage 1, 3, 4 or 5 is over: animateStage completes the
\* stage and the next stage starts, app.js 453-456 and 447
StageTimer ==
    \E i \in 1..Len(tasks.pipelines), k \in {1, 3, 4, 5} :
        /\ Quiet
        /\ tasks.pipelines[i].pc = << "delay1", "", "delay3", "delay4", "delay5" >>[k]
        /\ Becomes([Page EXCEPT
               !.app.stages = StageCompleted(@, k),
               !.tasks.pipelines[i].pc =
                   << "delay2", "", "delay4", "delay5", "result" >>[k]])
        /\ AppStep

\* the delay of stage 2 is over and stage 3 calls this.crypto.decrypt(data),
\* app.js 396-397
Stage3Decrypt ==
    \E i \in 1..Len(tasks.pipelines) :
        /\ Quiet
        /\ tasks.pipelines[i].pc = "delay2"
        /\ Becomes([Page EXCEPT
               !.app.stages = StageCompleted(@, 2),
               !.tasks.pipelines[i].pc = "decrypting",
               !.tasks.trace = Append(@, [op |-> "decrypt",
                                          run |-> tasks.pipelines[i].run,
                                          data |-> tasks.pipelines[i].data,
                                          out |-> TRUE])])
        /\ dec' = decrypt_decoded("pipeline", tasks.pipelines[i].data)
        /\ UNCHANGED << now, masterKey, timeWindow, enc, payload, callTicks,
                        calls, gps >>

\* decrypt has returned, app.js 397-398, or thrown, app.js 419-433
Stage3Returned ==
    \E i \in 1..Len(tasks.pipelines) :
        /\ tasks.pipelines[i].pc = "decrypting"
        /\ dec.pc = "done"
        /\ Becomes(IF dec.out.status = "return"
                   THEN [Page EXCEPT
                            !.tasks.pipelines[i].pc = "delay3",
                            !.tasks.pipelines[i].decryptedMessage = dec.out.val]
                   ELSE [Page EXCEPT
                            !.app.stages = MarkFailed(@),
                            !.tasks.pipelines[i].pc = "closing",
                            !.tasks.pipelines[i].failed = FirstActive(app.stages),
                            !.tasks.pipelines[i].error = dec.out.error])
        /\ dec' = DecIdle
        /\ callTicks' = 0
        /\ UNCHANGED << now, masterKey, timeWindow, enc, payload, calls, gps >>

\* showDecryptionResult has revealed the message, app.js 413-417, or the
\* delay of the catch is over, app.js 433-438: the pipeline has ended
PipelineEnds ==
    \E i \in 1..Len(tasks.pipelines) :
        /\ Quiet
        /\ tasks.pipelines[i].pc \in { "result", "closing" }
        /\ Becomes([Page EXCEPT !.tasks.pipelines = Remove(@, i)])
        /\ AppStep

NextPipeline ==
    \/ encryptMessage
    \/ encrypt_finish
    \/ encryptMessage_shown
    \/ DecryptManualInput
    \/ StageTimer
    \/ Stage3Decrypt
    \/ decrypt_probe
    \/ Stage3Returned
    \/ PipelineEnds

SpecPipeline == Init /\ [][NextPipeline]_vars

\* how many timers of simulateNFCScan are pending at a time
MaxTimers == 1

\* app.js 350: 'Hello from simulated NFC tag! This is a test message.'
testMessage ==
    << 72, 101, 108, 108, 111, 32, 102, 114, 111, 109, 32, 115,
       105, 109, 117, 108, 97, 116, 101, 100, 32, 78, 70, 67,
       32, 116, 97, 103, 33, 32, 84, 104, 105, 115, 32, 105,
       115, 32, 97, 32, 116, 101, 115, 116, 32, 109, 101, 115,
       115, 97, 103, 101, 46 >>

\* simulateNFCScan, app.js 349-351: generateTestCode calls encrypt
simulateNFCScan ==
    /\ Quiet
    /\ ~nfc.isSupported
    /\ Len(tasks.timers) < MaxTimers
    /\ enc' = encrypt_seeded(testMessage, Null)
    /\ tasks' = [tasks EXCEPT !.simulating = TRUE]
    /\ UNCHANGED << now, masterKey, timeWindow, dec, payload, callTicks,
                    calls, app, nfc, gps >>

\* the button that enableTestMode adds is clicked, app.js 343
TestButton == simulateNFCScan

\* the scanner's onclick property, set at app.js 145, runs simulateNFCScan
OnclickSimulate == app.onclick = "simulate" /\ simulateNFCScan

\* simulateNFCScan, app.js 353-357: encrypt has returned and the timer is
\* set, or encrypt has thrown
simulateNFCScan_timer ==
    /\ tasks.simulating
    /\ enc.pc = "done"
    /\ enc' = EncIdle
    /\ tasks' = [tasks EXCEPT !.simulating = FALSE,
                              !.timers = IF enc.out.status = "return"
                                         THEN Append(@, enc.out.val) ELSE @]
    /\ UNCHANGED << now, masterKey, timeWindow, dec, payload, callTicks,
                    calls, app, nfc, gps >>

\* the timer of app.js 355 fires
TimerFires ==
    \E i \in 1..Len(tasks.timers) :
        /\ Quiet
        /\ app.currentMode = "decrypt" => tasks.runs < MaxRuns
        /\ Becomes(handleNFCData([Page EXCEPT !.tasks.timers = Remove(@, i)],
                                 tasks.timers[i]))
        /\ AppStep

\* the page of a window without NDEFReader
InitTestMode ==
    /\ InitEngine
    /\ app = AppInit
    /\ nfc = NfcInit(FALSE)
    /\ tasks = TasksInit
    /\ gps = GpsInit

NextNfc ==
    \/ Toggle
    \/ OnclickToggle
    \/ SwitchMode
    \/ PermissionGranted
    \/ ScanRejected
    \/ ScanStarted
    \/ TagRead
    \/ ReadingListener
    \/ ReadingError
    \/ TestButton
    \/ OnclickSimulate
    \/ encrypt_finish
    \/ simulateNFCScan_timer
    \/ TimerFires

SpecNfc == (Init \/ InitTestMode) /\ [][NextNfc]_vars

(***************************************************************************)
(* decrypt runs to its end: the call is synchronous, so once it has        *)
(* started every probe of it is taken                                      *)
(***************************************************************************)
NextDecrypt ==
    \/ EncryptFirst
    \/ encrypt_finish
    \/ DecryptPayload
    \/ DecryptTampered
    \/ DecryptLiteral
    \/ decrypt_probe
    \/ Return
    \/ WindowPasses
    \/ DayPasses

\* weak fairness of decrypt_probe, which is enabled exactly when
\* dec.pc = "probing": a call with a probe to take is never left there
ProbesTaken == []<>(dec.pc # "probing") \/ []<><<decrypt_probe>>_vars

SpecDecrypt == Init /\ [][NextDecrypt]_vars /\ ProbesTaken

(***************************************************************************)
(* Every operation of the engine on one instance                           *)
(***************************************************************************)
\* isValidEncryptedFormat on the payload and on a string that is none
CheckFormat ==
    \/ payload.set /\ call_isValidEncryptedFormat(VStr(payload.data))
    \/ call_isValidEncryptedFormat(VStr(NotNfcData))

\* generateTimeKey() of the current window
KeyOfNow == call_generateTimeKey(getTimeSeed)

NextEngine ==
    \/ EncryptNow
    \/ encrypt_finish
    \/ DecryptPayload
    \/ DecryptLiteral
    \/ decrypt_probe
    \/ Return
    \/ CheckFormat
    \/ KeyOfNow
    \/ WindowPasses

SpecEngine == Init /\ [][NextEngine]_vars

(***************************************************************************)
(* Direct calls of simpleHash, expandKey and xorCipher                      *)
(***************************************************************************)
\* the longest string made of Chars
MaxStrLen == 2

\* the greatest length asked of expandKey
MaxExpandLen == 10

\* code units strings are made of: NUL, 'b', U+00FF and U+FFFF
Chars == {0, 98, 255, 65535}

RECURSIVE StringsOf(_)
\* the strings of at most n code units from Chars
StringsOf(n) ==
    IF n = 0 THEN { << >> }
    ELSE LET shorter == StringsOf(n - 1)
         IN  { s \in shorter \cup { Append(t, c) : t \in shorter, c \in Chars } :
                   Len(s) <= n }

Strings == StringsOf(MaxStrLen)

\* "polygenelubricants", whose rolling hash is -2^31, the secret, whose hash
\* is negative, and "https://example.com"
LongStrings ==
    { <<112, 111, 108, 121, 103, 101, 110, 101, 108, 117, 98, 114, 105, 99,
        97, 110, 116, 115>>,
      secret,
      <<104, 116, 116, 112, 115, 58, 47, 47, 101, 120, 97, 109, 112, 108,
        101, 46, 99, 111, 109>> }

\* keys and seeds: "", "k", and a time key
Keys == { << >>, <<107>>, generateTimeKey(<< getTimeSeed >>) }

\* this.simpleHash(str)
call_simpleHash(str) ==
    /\ calls = << >>
    /\ calls' = << Call("simpleHash", str, << >>, 0, simpleHash(str)) >>
    /\ UNCHANGED << appVars, now, masterKey, timeWindow, enc, dec, payload, callTicks >>

\* this.expandKey(key, length)
call_expandKey(key, length) ==
    /\ Len(calls) < 2
    /\ calls # << >> => (/\ calls[1].op = "expandKey"
                         /\ calls[1].a = key
                         /\ calls[1].n = length)
    /\ calls' = Append(calls, Call("expandKey", key, << >>, length,
                                   expandKey(key, length)))
    /\ UNCHANGED << appVars, now, masterKey, timeWindow, enc, dec, payload, callTicks >>

\* this.xorCipher(data, key)
call_xorCipher(data, key) ==
    /\ calls = << >>
    /\ calls' = << Call("xorCipher", data, key, 0, xorCipher(data, key)) >>
    /\ UNCHANGED << appVars, now, masterKey, timeWindow, enc, dec, payload, callTicks >>

\* this.xorCipher(result, key) on the result of the call before
call_xorCipher_again ==
    /\ Len(calls) = 1
    /\ calls[1].op = "xorCipher"
    /\ calls' = Append(calls, Call("xorCipher", calls[1].out, calls[1].b, 0,
                                   xorCipher(calls[1].out, calls[1].b)))
    /\ UNCHANGED << appVars, now, masterKey, timeWindow, enc, dec, payload, callTicks >>

SimpleHash == \E str \in Strings \cup LongStrings : call_simpleHash(str)

ExpandKey == \E key \in Keys, length \in 0..MaxExpandLen :
                 call_expandKey(key, length)

XorCipher == \E data \in Strings \cup LongStrings, key \in Keys :
                 call_xorCipher(data, key)

NextFn ==
    \/ SimpleHash
    \/ ExpandKey
    \/ XorCipher
    \/ call_xorCipher_again
    \/ TickWindow

SpecFn == Init /\ [][NextFn]_vars

(***************************************************************************)
(* Properties                                                               *)
(***************************************************************************)
\* every probe explored is decided by values that JSONparse represents
Modelled == dec.out.status # "unmodelled"

ExhaustedError ==
    "Decryption failed: Decryption failed - invalid key or expired data"

FormatError == "Decryption failed: Invalid encrypted format"

\* the window in which encrypt took its time seed
E == payload.seed

\* the window in which the decrypt call made its first probe
D == dec.probes[1].at

\* the finished decrypt call was given the payload of an encrypt call that
\* had no custom seed
DecryptedOwnPayload ==
    /\ dec.pc = "done"
    /\ dec.src = "payload"
    /\ payload.custom = Null
    /\ Len(dec.probes) > 0

\* encrypt took both clock readings, and decrypt all of its readings, in
\* one and the same window
SameWindow ==
    /\ payload.ts \div timeWindow = E
    /\ \A k \in 1..Len(dec.probes) : dec.probes[k].at = E

\* C1: for every message m, the empty string and code units above 255
\* included, encrypt(m) returns a payload and decrypt of it in the same
\* 5-minute window returns exactly m.
C1_RoundTrip ==
    /\ (enc.pc = "done" /\ enc.custom = Null) => enc.out.status = "return"
    /\ (DecryptedOwnPayload /\ SameWindow)
           => dec.out = Returned(VStr(payload.message))

\* the round trip of a non-empty message of code units up to 255
RoundTripLatin1 ==
    (/\ DecryptedOwnPayload
     /\ SameWindow
     /\ payload.message # << >>)
        => dec.out = Returned(VStr(payload.message))

\* C2: when a probe of decrypt finds a parsed, checksum-valid envelope that
\* is more than 24 hours old, decrypt fails with an error that is not the
\* exhausted-retry error.
C2_ExpiryPrecedence ==
    (dec.pc = "done" /\ \E k \in 1..Len(dec.probes) : dec.probes[k].expired)
        => (dec.out.status = "throw" /\ dec.out.error # ExhaustedError)

\* C3: a probe that found a parsed, checksum-valid envelope older than 24
\* hours is the last probe of its decrypt call.
C3_ExpiryStopsRetry ==
    \A k \in 1..Len(dec.probes) :
        dec.probes[k].expired => k = Len(dec.probes)

\* C4: decrypt of "not-nfc-data" and of "NFC_" is never probing a window,
\* has probed none, and ends with the format error.
C4_FormatRejection ==
    (dec.src = "literal" /\ dec.data \in {NotNfcData, PREFIX})
        => /\ dec.pc # "probing"
           /\ dec.probes = << >>
           /\ dec.pc = "done" => dec.out = Thrown(FormatError)

\* the age of the payload at the first probe of the decrypt call
FirstProbeWithinDay == (D - E) * timeWindow < MaxAge

\* every clock reading of the decrypt call fell into the window D
DecryptInOneWindow == \A k \in 1..Len(dec.probes) : dec.probes[k].at = D

\* C5: if encrypt ran in window E and decrypt runs in window D with
\* 0 <= D - E <= 3, less than 24 hours later, decrypt returns the message.
C5_SkewSuccess ==
    (/\ DecryptedOwnPayload
     /\ DecryptInOneWindow
     /\ D - E >= 0 /\ D - E <= 3
     /\ FirstProbeWithinDay)
        => dec.out = Returned(VStr(payload.message))

\* C5 for a non-empty message
SkewSuccessNonEmpty ==
    (/\ DecryptedOwnPayload
     /\ DecryptInOneWindow
     /\ payload.message # << >>
     /\ D - E >= 0 /\ D - E <= 3)
        => dec.out = Returned(VStr(payload.message))

\* C5 for a non-empty message and a decrypt call that starts in window D
\* and ends less than 24 hours after the encryption
SkewSuccessFromStart ==
    (/\ DecryptedOwnPayload
     /\ payload.message # << >>
     /\ D - E >= 0 /\ D - E <= 3
     /\ \A k \in 1..Len(dec.probes) :
            (dec.probes[k].at - E) * timeWindow < MaxAge)
        => dec.out = Returned(VStr(payload.message))

\* C6: if encrypt ran in window E and decrypt runs in window D with
\* D - E > 3, decrypt fails with the exhausted-retry error.
C6_SkewFailure ==
    (DecryptedOwnPayload /\ D - E > 3) => dec.out = Thrown(ExhaustedError)

\* a payload younger than 24 hours was refused four or more windows late
C6_Witness ==
    /\ DecryptedOwnPayload
    /\ D - E > 3
    /\ FirstProbeWithinDay
    /\ payload.message = <<104, 105>>
    /\ D - E = 4
    /\ Len(dec.probes) = 4
    /\ dec.out = Thrown(ExhaustedError)

\* C7: decrypt of a payload of encrypt(m) in which one character of the
\* base64 body was replaced by another never returns m.
C7_TamperDetection ==
    (dec.pc = "done" /\ dec.src = "tampered")
        => dec.out # Returned(VStr(payload.message))

\* the probes of a decrypt call are the windows W, W-1, W-2, ... in this
\* order, W being the window of its first probe
ProbesDescend ==
    \A k \in 1..Len(dec.probes) :
        dec.probes[k].seed = dec.probes[1].at - (k - 1)

\* C8: a decrypt call probes the current window, then current-1, -2, -3 in
\* this order, at most four windows, stops at the first probe that parses
\* and checksum-verifies, and returns the msg of the first valid envelope.
C8_RetryOrder ==
    /\ Len(dec.probes) <= 4
    /\ ProbesDescend
    /\ \A k \in 1..Len(dec.probes) :
           dec.probes[k].valid => k = Len(dec.probes)
    /\ \A k \in 1..Len(dec.probes) :
           dec.probes[k].kind = "value"
               => (dec.pc = "done" /\ dec.out = Returned(dec.probes[k].val))

\* C9: an envelope built without a custom seed has seed = floor(ts / 300000).
C9_SingleClockEncrypt ==
    (payload.set /\ payload.custom = Null)
        => payload.seed = payload.ts \div timeWindow

\* C10: the windows probed by one decrypt call are W, W-1, W-2, W-3 for the
\* window W read at its first probe, whatever the clock does meanwhile.
C10_SingleClockDecrypt ==
    dec.pc = "done" =>
        \A k \in 1..Len(dec.probes) :
            dec.probes[k].seed = dec.probes[1].seed - (k - 1)

\* the window of the receiver's clock at the last probe of the decrypt call
LastProbeAt == dec.probes[Len(dec.probes)].at

\* C11: decrypt never probes a window greater than the current one, and
\* when it returns a message of a payload encrypted under window E, the
\* receiver's window has reached E; while the receiver's window is below E
\* the decrypt call fails.
C11_BackwardOnly ==
    /\ \A k \in 1..Len(dec.probes) : dec.probes[k].seed <= dec.probes[k].at
    /\ (dec.pc = "done" /\ dec.src = "payload" /\ Len(dec.probes) > 0)
           => /\ dec.out.status = "return" => LastProbeAt >= E
              /\ LastProbeAt < E => dec.out = Thrown(ExhaustedError)

\* the receiver, one window behind the sender, refused a fresh "hi"
C11_Witness ==
    /\ dec.pc = "done"
    /\ dec.src = "payload"
    /\ payload.message = <<104, 105>>
    /\ Len(dec.probes) = 4
    /\ LastProbeAt = E - 1
    /\ dec.probes[1].seed = E - 1
    /\ dec.out = Thrown(ExhaustedError)

\* what JSON.parse makes of the decoded payload under the key of a window
OpenedUnder(seed) ==
    JSONparse(xorCipher(dec.encrypted,
                        simpleHash(masterKey \o NumToString(seed))))

\* the text parsed to an object that has msg, ts and checksum
HasEnvelope(env) ==
    /\ env.ok
    /\ env.obj
    /\ Lookup(env.m, KeyMsg) # Undefined
    /\ Lookup(env.m, KeyTs) # Undefined
    /\ Lookup(env.m, KeyChecksum) # Undefined

\* the checksum of the envelope is the hash of its msg and ts
ChecksumMatches(msg, ts, checksum) ==
    /\ msg.t = "str"
    /\ ts.t = "int"
    /\ checksum = VStr(simpleHash(msg.s \o NumToString(ts.n)))

\* the value returned is the msg of env, env verifies and is fresh
ReturnVerified(env) ==
    /\ HasEnvelope(env)
    /\ dec.out.val = Lookup(env.m, KeyMsg)
    /\ ChecksumMatches(Lookup(env.m, KeyMsg), Lookup(env.m, KeyTs),
                       Lookup(env.m, KeyChecksum))
    /\ now - Lookup(env.m, KeyTs).n <= MaxAge

\* env is an envelope whose checksum is not the hash of its msg and ts
ChecksumMismatch(env) ==
    /\ HasEnvelope(env)
    /\ ~ChecksumMatches(Lookup(env.m, KeyMsg), Lookup(env.m, KeyTs),
                        Lookup(env.m, KeyChecksum))

\* the k-th probe returned null to decrypt, which went on to the next
\* window or, after the fourth, threw the exhausted-retry error
ProbeFailedQuietly(k) ==
    /\ dec.probes[k].kind = "null"
    /\ \/ k < Len(dec.probes)
       \/ dec.pc = "probing"
       \/ k = 4 /\ dec.out = Thrown(ExhaustedError)

MismatchProbed ==
    /\ dec.pc = "done"
    /\ dec.src = "tampered"
    /\ ChecksumMismatch(OpenedUnder(dec.probes[1].seed))

\* the text is not well-formed JSON for an object, or the object lacks one
\* of msg, ts, seed, checksum
NotAnEnvelope(env) ==
    \/ ~env.ok
    \/ ~env.obj
    \/ \E key \in {KeyMsg, KeyTs, KeySeed, KeyChecksum} :
           Lookup(env.m, key) = Undefined

\* C13: a probe whose decrypted text is not well-formed or lacks one of the
\* four fields msg, ts, seed, checksum returns null; such an envelope is
\* never accepted.
C13_EnvelopeParsing ==
    \A k \in 1..Len(dec.probes) :
        NotAnEnvelope(OpenedUnder(dec.probes[k].seed))
            => dec.probes[k].kind = "null"

\* C13 for the three fields msg, ts, checksum
ParsingOfThreeFields ==
    \A k \in 1..Len(dec.probes) :
        ~HasEnvelope(OpenedUnder(dec.probes[k].seed))
            => dec.probes[k].kind = "null"

\* C14: generateTimeKey(w) is simpleHash(masterKey + String(w)) for every
\* window w, 0 included, and two calls with the same w return the same key
\* whatever the clock shows.
C14_TimeKey ==
    /\ \A k \in 1..Len(calls) :
           calls[k].op = "generateTimeKey"
               => calls[k].out = simpleHash(masterKey \o NumToString(calls[k].n))
    /\ \A j, k \in 1..Len(calls) :
           (/\ calls[j].op = "generateTimeKey"
            /\ calls[k].op = "generateTimeKey"
            /\ calls[j].n = calls[k].n)
               => calls[j].out = calls[k].out

\* C14 for the windows other than 0
TimeKeyNonZero ==
    \A k \in 1..Len(calls) :
        (calls[k].op = "generateTimeKey" /\ calls[k].n # 0)
            => calls[k].out = simpleHash(masterKey \o NumToString(calls[k].n))

\* the second half of C14 alone: equal windows give equal keys
TimeKeyOfZeroStable ==
    \A j, k \in 1..Len(calls) :
        (/\ calls[j].op = "generateTimeKey"
         /\ calls[k].op = "generateTimeKey"
         /\ calls[j].n = calls[k].n)
            => calls[j].out = calls[k].out

\* C15: every value encrypt returns is "NFC_" followed only by characters
\* of [A-Za-z0-9+/=], and isValidEncryptedFormat accepts it.
C15_CiphertextAlphabet ==
    (enc.pc = "done" /\ enc.out.status = "return")
        => /\ SubSeq(enc.out.val, 1, 4) = PREFIX
           /\ \A i \in 5..Len(enc.out.val) :
                  \/ B64Index(enc.out.val[i]) # -1
                  \/ enc.out.val[i] = 61
           /\ isValidEncryptedFormat(VStr(enc.out.val))

\* encrypt returned the payload of "hi", which ends in base64 padding
C15_Witness ==
    /\ enc.pc = "done"
    /\ enc.out.status = "return"
    /\ enc.message = <<104, 105>>
    /\ Len(enc.out.val) > 10
    /\ enc.out.val[Len(enc.out.val)] = 61

\* C16: encrypt returns a payload for every string message; the envelope of
\* a string can always be serialized, so encrypt never throws.
C16_EncryptTotal ==
    enc.pc = "done" => enc.out.status = "return"

\* C16 for messages of code units up to 255
EncryptTotalLatin1 ==
    (enc.pc = "done" /\ \A i \in 1..Len(enc.message) : enc.message[i] <= 255)
        => enc.out.status = "return"

\* the part of the data handed to decrypt that follows "NFC_"
Body == SubSeq(dec.data, Len(PREFIX) + 1, Len(dec.data))

\* text that is certainly no base64: it has a character outside
\* [A-Za-z0-9+/=] that is no white space, or a '=' before another character
Garbled(body) ==
    \/ \E i \in 1..Len(body) : ~InClass(body[i]) /\ ~IsAsciiWs(body[i])
    \/ \E i \in 1..(Len(body) - 1) : body[i] = 61 /\ body[i + 1] # 61

\* C17: a decrypt call given "NFC_" followed by text that is no base64 is
\* never probing a window, has probed none, and ends by throwing.
C17_GarbledFatal ==
    (dec.pc # "idle" /\ StartsWith(dec.data, PREFIX) /\ Garbled(Body))
        => /\ dec.pc = "done"
           /\ dec.probes = << >>
           /\ dec.out.status = "throw"
           /\ dec.out.error # ExhaustedError

\* a payload with a '=' put in the middle of its body was refused unprobed
C17_Witness ==
    /\ dec.pc = "done"
    /\ dec.src = "tampered"
    /\ \E i \in 1..(Len(Body) - 1) : Body[i] = 61 /\ Body[i + 1] # 61
    /\ dec.probes = << >>
    /\ dec.out = Thrown("Decryption failed: InvalidCharacterError")

\* C18: xorCipher(xorCipher(data, key), key) is data, and xorCipher(data,
\* key) is as long as data.
C18_CipherSymmetry ==
    /\ \A k \in 1..Len(calls) :
           calls[k].op = "xorCipher" => Len(calls[k].out) = Len(calls[k].a)
    /\ (Len(calls) = 2 /\ calls[2].op = "xorCipher")
           => calls[2].out = calls[1].a

\* the secret went through a one-character key, expanded twenty-fold,
\* changed, and came back
C18_Witness ==
    /\ Len(calls) = 2
    /\ calls[2].op = "xorCipher"
    /\ calls[1].a = secret
    /\ calls[1].b = <<107>>
    /\ calls[1].out # secret
    /\ calls[2].a = calls[1].out
    /\ calls[2].out = secret

\* the rolling hash on four bytes << b3, b2, b1, b0 >>: h * 31 + c modulo
\* 2^32, as the sum of the character codes weighted by powers of 31
RefStep(b, c) ==
    LET t0 == 31 * b[4] + (c % 256)
        t1 == 31 * b[3] + (c \div 256) + (t0 \div 256)
        t2 == 31 * b[2] + (t1 \div 256)
        t3 == 31 * b[1] + (t2 \div 256)
    IN  << t3 % 256, t2 % 256, t1 % 256, t0 % 256 >>

\* the bytes of the hash of str: from[<< i, b >>] continues with the i-th
\* character from the bytes b
RefBytes(str) ==
    LET from[s \in Nat \X Seq(0..255)] ==
            IF s[1] > Len(str) THEN s[2]
            ELSE from[<< s[1] + 1, RefStep(s[2], str[s[1]]) >>]
    IN  from[<< 1, << 0, 0, 0, 0 >> >>]

\* the bytes of the absolute value of the signed number with bytes b
RefAbs(b) ==
    IF b[1] < 128 THEN b
    ELSE LET u0 == (255 - b[4]) + 1
             u1 == (255 - b[3]) + (u0 \div 256)
             u2 == (255 - b[2]) + (u1 \div 256)
             u3 == (255 - b[1]) + (u2 \div 256)
         IN  << u3 % 256, u2 % 256, u1 % 256, u0 % 256 >>

\* "0123456789abcdef"
HexChars == << 48, 49, 50, 51, 52, 53, 54, 55, 56, 57,
               97, 98, 99, 100, 101, 102 >>

\* eight hexadecimal digits for four bytes
RefHex(b) ==
    [i \in 1..8 |-> HexChars[(IF i % 2 = 1 THEN b[(i + 1) \div 2] \div 16
                                            ELSE b[i \div 2] % 16) + 1]]

\* C19: simpleHash(s) is the absolute value of the signed 32-bit rolling hash
\* h = 31 * h + charCode, in hexadecimal, zero-padded; it has exactly 8
\* hexadecimal characters, also when the hash is -2^31, and
\* simpleHash("") is "00000000".
C19_Hasher ==
    \A k \in 1..Len(calls) :
        calls[k].op = "simpleHash"
            => /\ Len(calls[k].out) = 8
               /\ \A i \in 1..8 : \E d \in 1..16 : calls[k].out[i] = HexChars[d]
               /\ calls[k].out = RefHex(RefAbs(RefBytes(calls[k].a)))
               /\ calls[k].a = << >>
                      => calls[k].out = <<48, 48, 48, 48, 48, 48, 48, 48>>

\* the hash of "polygenelubricants" is -2^31 and is rendered "80000000"
C19_Witness ==
    /\ Len(calls) = 1
    /\ calls[1].op = "simpleHash"
    /\ Len(calls[1].a) = 18
    /\ RefBytes(calls[1].a) = << 128, 0, 0, 0 >>
    /\ calls[1].out = <<56, 48, 48, 48, 48, 48, 48, 48>>

\* the secret, whose hash is negative, is rendered by its absolute value
NegativeHashed ==
    /\ Len(calls) = 1
    /\ calls[1].op = "simpleHash"
    /\ calls[1].a = secret
    /\ RefBytes(secret)[1] >= 128
    /\ calls[1].out = <<49, 97, 48, 56, 48, 55, 54, 101>>

RECURSIVE RefBlocks(_, _)
\* hash(seed + "0") hash(seed + "1") ... hash(seed + String(c))
RefBlocks(seed, c) ==
    (IF c = 0 THEN << >> ELSE RefBlocks(seed, c - 1))
    \o simpleHash(seed \o NumToString(c))

\* C20: expandKey(seed, n) has exactly n characters, the first n of seed
\* followed by hash(seed + "0"), hash(seed + "1"), ..., also for n shorter
\* than seed; called again at another time it returns the same.
C20_KeyExpansion ==
    /\ \A k \in 1..Len(calls) :
           calls[k].op = "expandKey"
               => /\ Len(calls[k].out) = calls[k].n
                  /\ calls[k].out
                         = SubSeq(calls[k].a \o RefBlocks(calls[k].a,
                                                          calls[k].n \div 8),
                                  1, calls[k].n)
    /\ (Len(calls) = 2 /\ calls[2].op = "expandKey")
           => calls[2].out = calls[1].out

\* the one-character seed "k" was expanded to ten characters, twice, in
\* different time windows
C20_Witness ==
    /\ Len(calls) = 2
    /\ calls[2].op = "expandKey"
    /\ calls[1].a = <<107>>
    /\ calls[1].n = 10
    /\ calls[2].n = 10
    /\ calls[2].at > calls[1].at
    /\ Len(calls[2].out) = 10
    /\ calls[2].out[1] = 107

\* a time key of eight characters was cut to three
KeyCutShort ==
    /\ Len(calls) = 1
    /\ calls[1].op = "expandKey"
    /\ Len(calls[1].a) = 8
    /\ calls[1].n = 3
    /\ calls[1].out = SubSeq(calls[1].a, 1, 3)

\* the characters A-Z a-z 0-9 + / =
Base64Alphabet == (65..90) \cup (97..122) \cup (48..57) \cup {43, 47, 61}

\* x is a string longer than 10 that is "NFC_" and then only characters of
\* the base64 alphabet
WellFormed(x) ==
    /\ x.t = "str"
    /\ Len(x.s) > 10
    /\ SubSeq(x.s, 1, 4) = <<78, 70, 67, 95>>
    /\ \A i \in 5..Len(x.s) : x.s[i] \in Base64Alphabet

\* the last call was one of isValidEncryptedFormat
FormatChecked ==
    Len(calls) = 1 /\ calls[1].op = "isValidEncryptedFormat"

\* C21: isValidEncryptedFormat(x) is true exactly when x is a string longer
\* than 10 that starts with "NFC_" and goes on with base64 characters only;
\* the call runs no encrypt or decrypt and leaves the engine as it was.
C21_FormatPredicate ==
    /\ [](FormatChecked => (calls[1].out <=> WellFormed(calls[1].data)))
    /\ [][calls' # calls
             => UNCHANGED << now, masterKey, timeWindow, enc, dec, payload >>]_vars

\* "NFC_" and ten characters ending in a line feed were refused
C21_Witness ==
    /\ FormatChecked
    /\ calls[1].data.t = "str"
    /\ Len(calls[1].data.s) = 11
    /\ SubSeq(calls[1].data.s, 1, 4) = PREFIX
    /\ calls[1].data.s[11] = 10
    /\ \A i \in 5..10 : calls[1].data.s[i] = 65
    /\ calls[1].out = FALSE

\* a payload of encrypt was accepted
PayloadAccepted ==
    /\ FormatChecked
    /\ payload.set
    /\ calls[1].data = VStr(payload.data)
    /\ calls[1].out = TRUE

\* C22: no step of encrypt, decrypt, attemptDecrypt, generateTimeKey or
\* isValidEncryptedFormat changes masterKey or the window duration.
C22_KeyAndWindowFixed ==
    [][masterKey' = masterKey /\ timeWindow' = timeWindow]_vars

\* after a format check, a key derivation, an encrypt and a decrypt that
\* returned, the engine has the key and the window it was constructed with
C22_Witness ==
    /\ Len(calls) = 2
    /\ calls[1].op = "isValidEncryptedFormat"
    /\ calls[2].op = "generateTimeKey"
    /\ payload.set
    /\ dec.pc = "done"
    /\ dec.out.status = "return"
    /\ \E f \in Fingerprints : masterKey = generateMasterKey(f)
    /\ timeWindow = 300000

\* the errors decrypt throws, each naming its cause
DescriptiveErrors ==
    { "Decryption failed: " \o cause :
        cause \in { "Invalid encrypted format", "InvalidCharacterError",
                    "Decryption failed - invalid key or expired data" } }

\* decrypt returned a message: a value that is neither null nor undefined
\* nor empty, given by its last probe
ReturnedMessage ==
    /\ dec.out.status = "return"
    /\ dec.out.val.t \notin { "null", "undefined" }
    /\ ~IsFalsy(dec.out.val)
    /\ Len(dec.probes) > 0
    /\ dec.probes[Len(dec.probes)].kind = "value"
    /\ dec.probes[Len(dec.probes)].val = dec.out.val

\* decrypt threw an error that names its cause, after no probe gave a value
ThrewDescriptive ==
    /\ dec.out.status = "throw"
    /\ dec.out.error \in DescriptiveErrors
    /\ \A k \in 1..Len(dec.probes) : dec.probes[k].kind # "value"

\* C23: every decrypt call ends, after at most four probes, either
\* returning a message or throwing a descriptive error, never both and
\* never a null or undefined return.
C23_TerminalOutcome ==
    /\ [](Len(dec.probes) <= 4)
    /\ [](dec.pc = "done" => (ReturnedMessage \/ ThrewDescriptive))
    /\ [](dec.pc = "done" => ~(ReturnedMessage /\ ThrewDescriptive))
    /\ (dec.pc = "probing" ~> dec.pc = "done")

\* decrypt of a payload threw after its fourth probe
C23_Witness ==
    /\ dec.pc = "done"
    /\ dec.src = "payload"
    /\ Len(dec.probes) = 4
    /\ ThrewDescriptive

\* decrypt returned the message at its third probe
ReturnedAtThirdProbe ==
    /\ dec.pc = "done"
    /\ Len(dec.probes) = 3
    /\ ReturnedMessage

\* the last two calls of adjustScale had the same distance, the second
\* starting from the scale the first had left
AdjustedTwice ==
    /\ Len(calls) = 2
    /\ calls[1].op = "adjustScale"
    /\ calls[2].op = "adjustScale"
    /\ calls[2].distance = calls[1].distance
    /\ calls[2].before = calls[1].out

\* C28: adjustScale applied a second time with the same distance leaves the
\* scale as the first application left it.
C28_ScaleSettles == AdjustedTwice => calls[2].out = calls[1].out

\* the watches the geolocation service holds for the handler
ActiveWatches == gps.watches

\* C29: at most one geolocation watch is registered at a time, and none
\* when the last of show, refreshGPS and hide was hide.
C29_OneWatch ==
    /\ Cardinality(ActiveWatches) <= 1
    /\ gps.lastCall = "hide" => ActiveWatches = {}

\* the second half of C29 alone: hide leaves no watch
NoWatchAfterHide == gps.lastCall = "hide" => ActiveWatches = {}

\* hide after one show leaves no watch
HiddenClean ==
    gps.lastCall = "hide" /\ gps.lastWatch = 1 /\ ActiveWatches = {}

\* nothing is pending: no start awaits a scan() and no tag event is under
\* way
NothingPending == Len(tasks.starts) = 0 /\ tasks.dispatch.left = 0

\* C25: once all pending operations have completed, the app's isScanning
\* equals the handler's.
C25_FlagsAgree == NothingPending => app.isScanning = nfc.isScanning

\* C26: no tag data reaches handleNFCData after stopScanning has run and
\* before startScanning is called again.
C26_NoDeliveryAfterStop == tasks.delivery.set => ~tasks.delivery.afterStop

\* C27: handleNFCData starts a pipeline exactly when the mode is 'decrypt'
\* at delivery, and leaves the app's isScanning false.
C27_ModeGate ==
    tasks.delivery.set
        => /\ tasks.delivery.started <=> tasks.delivery.mode = "decrypt"
           /\ ~tasks.delivery.isScanning

\* data arrived in 'encrypt' mode and started no pipeline
C27_Witness ==
    /\ tasks.delivery.set
    /\ tasks.delivery.mode = "encrypt"
    /\ ~tasks.delivery.started
    /\ ~app.isScanning

\* in test mode the timer delivered the test payload while the app was
\* scanning, and a pipeline was started for it
SimulatedDelivery ==
    /\ ~nfc.isSupported
    /\ tasks.delivery.set
    /\ tasks.delivery.started
    /\ Len(tasks.pipelines) > 0
    /\ tasks.pipelines[Len(tasks.pipelines)].pc = "delay1"
    /\ ~app.isScanning

\* data arrived in 'decrypt' mode and started a pipeline
DeliveredInDecryptMode ==
    /\ tasks.delivery.set
    /\ tasks.delivery.mode = "decrypt"
    /\ tasks.delivery.started

\* the pipeline's i-th engine call was a decrypt
DecryptAt(i) == tasks.trace[i].op = "decrypt"

\* before its i-th call the pipeline had isValidEncryptedFormat say true
\* of the same data in the same run
CheckedBefore(i) ==
    \E j \in 1..(i - 1) :
        /\ tasks.trace[j].op = "isValidEncryptedFormat"
        /\ tasks.trace[j].run = tasks.trace[i].run
        /\ tasks.trace[j].data = tasks.trace[i].data
        /\ tasks.trace[j].out = TRUE

\* the format check of the pipeline's j-th call failed
RefusedAt(j) ==
    tasks.trace[j].op = "isValidEncryptedFormat" /\ tasks.trace[j].out = FALSE

\* C24: the pipeline calls decrypt(data) only after isValidEncryptedFormat
\* said true of the same data; after a failed format check the run calls
\* no decrypt and is ended by the catch with stage 1 marked failed.
C24_CheckedBeforeDecrypt ==
    /\ \A i \in 1..Len(tasks.trace) : DecryptAt(i) => CheckedBefore(i)
    /\ \A j \in 1..Len(tasks.trace) :
           RefusedAt(j)
               => /\ \A i \in 1..Len(tasks.trace) :
                         DecryptAt(i) => tasks.trace[i].run # tasks.trace[j].run
                  /\ \A k \in 1..Len(tasks.pipelines) :
                         tasks.pipelines[k].run = tasks.trace[j].run
                             => /\ tasks.pipelines[k].pc = "closing"
                                /\ tasks.pipelines[k].failed = 1

\* one run was refused at stage 1 while another, checked, had called
\* decrypt
C24_Witness ==
    /\ Len(tasks.trace) = 3
    /\ \E j \in 1..3 : RefusedAt(j)
    /\ \E i \in 1..3 : DecryptAt(i) /\ CheckedBefore(i)
    /\ \E k \in 1..Len(tasks.pipelines) :
           tasks.pipelines[k].pc = "closing" /\ tasks.pipelines[k].failed = 1
                /\ tasks.pipelines[k].error = "Invalid encrypted data format"

\* a pipeline revealed the message of the payload it was given
PipelineSucceeded ==
    \E k \in 1..Len(tasks.pipelines) :
        /\ tasks.pipelines[k].pc = "result"
        /\ payload.set
        /\ tasks.pipelines[k].data = payload.data
        /\ tasks.pipelines[k].decryptedMessage = VStr(payload.message)

====
